---- MODULE Spec2Model ----
(***************************************************************************)
(* Model of the AURA gesture-control pipeline (src/src/vision_service.py): *)
(* ClickHandler, HandState, ThreadedCamera, vision_process_loop and        *)
(* cursor_thread.                                                          *)
(*                                                                         *)
(* Times are integers in milliseconds (the source holds float seconds:     *)
(* 0.15 s is 150, 0.5 s is 500, 0.1 s is 100); distances and positions are *)
(* integers in pixels.  `wall` is time.time(), `perf` is                   *)
(* time.perf_counter().                                                    *)
(***************************************************************************)
EXTENDS Integers, Sequences, FiniteSets, TLC

VARIABLES
    state,      \* ClickHandler.state : ClickState
    wall,       \* time.time(), ms
    perf,       \* time.perf_counter(), ms
    trace,      \* the calls made on the ClickHandler so far, with what each issued
    hs,         \* the HandState shared by vision_process_loop and cursor_thread
    cam,        \* ThreadedCamera: frame (the latest captured frame) and ret
    vloop,      \* locals of vision_process_loop: frame_count, last_gesture_time,
                \* vision_smoother, and whether the loop has stopped iterating
    cloop,      \* locals of cursor_thread: smoother
    lock,       \* HandState.lock: "free", or the thread that holds it
    vthr,       \* where vision_process_loop is inside a HandState call
    cthr,       \* where cursor_thread is inside a HandState call
    obj,        \* the object or function a sequence of direct calls exercises
    bus,        \* SharedState.command_queue and the commands dispatched from it
    last        \* the latest step: which operation ran, the calls it made, the
                \* OS input calls it issued (and where it moved the cursor to),
                \* the button flags and the HandState flags it found, and the
                \* dict get_snapshot returned to it

vision_vars == <<cam, vloop>>
call_vars == <<lock, vthr, cthr>>
unit_vars == <<obj, bus>>
vars == <<state, wall, perf, trace, hs, cam, vloop, cloop, lock, vthr, cthr, obj, bus, last>>

----------------------------------------------------------------------------
(* GestureThresholds                                                       *)

PINCH_CLICK == 30
PINCH_RELEASE == 50
RIGHT_CLICK_HOLD == 500
CLICK_DEBOUNCE == 150
SNIPER_DISTANCE == 45

----------------------------------------------------------------------------
(* Bounds of the model                                                     *)

\* number of calls the ClickHandler harness makes
MaxCalls == 4
\* time.time() at start-up of the real program: any value further than
\* CLICK_DEBOUNCE from the 0.0 that ClickState.last_click_time starts with
EpochOffset == 1000

\* pinch distances (px) fed to process_pinch
Dists == {25, 30, 40, 50, 55, 60}
\* time that passes between two calls (ms)
Deltas == {30, 50, 500}

----------------------------------------------------------------------------
(* ClickState and ClickHandler                                             *)

ClickState ==
    [is_left_down |-> FALSE, is_right_down |-> FALSE,
     last_click_time |-> 0, pinch_start_time |-> 0,
     click_count |-> 0, last_click_count_reset |-> 0]

\* MouseController.right_click: right_down, sleep(0.01), right_up
right_click == <<"right_down", "right_up">>

\* what a branch of process_pinch that does nothing returns
NoChange(st, status) == [state |-> st, out |-> <<>>, status |-> status]

\* Press without the debounce check
Press_NoDebounce(st, current_time) ==
    [state  |-> [st EXCEPT !.pinch_start_time = current_time,
                           !.is_left_down = TRUE],
     out    |-> <<"left_down">>,
     status |-> "LEFT DOWN"]

\* process_pinch, "START OF NEW PINCH": the debounce check and the press
Press(st, current_time) ==
    IF current_time - st.last_click_time > CLICK_DEBOUNCE THEN
        [state  |-> [st EXCEPT !.pinch_start_time = current_time,
                               !.is_left_down = TRUE],
         out    |-> <<"left_down">>,
         status |-> "LEFT DOWN"]
    ELSE NoChange(st, "")

\* Upgrade that leaves is_left_down set
Upgrade_KeepLeft(st, current_time) ==
    IF current_time - st.pinch_start_time > RIGHT_CLICK_HOLD THEN
        [state  |-> [st EXCEPT !.is_right_down = TRUE,
                               !.last_click_time = current_time],
         out    |-> <<"left_up">> \o right_click,
         status |-> "RIGHT CLICK"]
    ELSE NoChange(st, "HOLD")

\* Upgrade that does not mark is_right_down
Upgrade_NoRightFlag(st, current_time) ==
    IF current_time - st.pinch_start_time > RIGHT_CLICK_HOLD THEN
        [state  |-> [st EXCEPT !.is_left_down = FALSE,
                               !.last_click_time = current_time],
         out    |-> <<"left_up">> \o right_click,
         status |-> "RIGHT CLICK"]
    ELSE NoChange(st, "HOLD")

\* process_pinch, "HELD PINCH": the conversion to a right-click
Upgrade(st, current_time) ==
    IF current_time - st.pinch_start_time > RIGHT_CLICK_HOLD THEN
        [state  |-> [st EXCEPT !.is_left_down = FALSE,
                               !.is_right_down = TRUE,
                               !.last_click_time = current_time],
         out    |-> <<"left_up">> \o right_click,
         status |-> "RIGHT CLICK"]
    ELSE NoChange(st, "HOLD")

\* a release that issues left_up without looking at is_left_down
Release_Unconditional(st, current_time) ==
    [state  |-> [st EXCEPT !.is_left_down = FALSE, !.is_right_down = FALSE,
                           !.last_click_time = current_time],
     out    |-> <<"left_up">>,
     status |-> "RELEASED"]

\* process_pinch, "PINCH RELEASED"
Release(st, current_time) ==
    LET rel == st.is_left_down
        s1  == IF rel THEN [st EXCEPT !.is_left_down = FALSE,
                                      !.last_click_time = current_time]
               ELSE st
        s2  == IF s1.is_right_down THEN [s1 EXCEPT !.is_right_down = FALSE]
               ELSE s1
    IN  [state  |-> s2,
         out    |-> IF rel THEN <<"left_up">> ELSE <<>>,
         status |-> IF rel THEN "RELEASED" ELSE ""]

\* process_pinch releasing as soon as the distance is back above PINCH_CLICK
ProcessPinch_NoHysteresis(st, pinch_dist, current_time) ==
    IF pinch_dist < PINCH_CLICK THEN
        IF ~st.is_left_down /\ ~st.is_right_down THEN Press(st, current_time)
        ELSE IF st.is_left_down THEN Upgrade(st, current_time)
        ELSE NoChange(st, "")
    ELSE IF pinch_dist > PINCH_CLICK THEN Release(st, current_time)
    ELSE NoChange(st, "")

\* process_pinch taking a distance of exactly PINCH_CLICK for a pinch
ProcessPinch_InclusiveClick(st, pinch_dist, current_time) ==
    IF pinch_dist <= PINCH_CLICK THEN
        IF ~st.is_left_down /\ ~st.is_right_down THEN Press(st, current_time)
        ELSE IF st.is_left_down THEN Upgrade(st, current_time)
        ELSE NoChange(st, "")
    ELSE IF pinch_dist > PINCH_RELEASE THEN Release(st, current_time)
    ELSE NoChange(st, "")

\* process_pinch starting a new pinch whenever the left button is up
ProcessPinch_PressIgnoresRight(st, pinch_dist, current_time) ==
    IF pinch_dist < PINCH_CLICK THEN
        IF ~st.is_left_down THEN Press(st, current_time)
        ELSE Upgrade(st, current_time)
    ELSE IF pinch_dist > PINCH_RELEASE THEN Release(st, current_time)
    ELSE NoChange(st, "")

\* ClickHandler.process_pinch: the ClickState after the call, the mouse
\* calls issued (in order) and the status string returned
ProcessPinch(st, pinch_dist, current_time) ==
    IF pinch_dist < PINCH_CLICK THEN
        IF ~st.is_left_down /\ ~st.is_right_down THEN Press(st, current_time)
        ELSE IF st.is_left_down THEN Upgrade(st, current_time)
        ELSE NoChange(st, "")
    ELSE IF pinch_dist > PINCH_RELEASE THEN Release(st, current_time)
    ELSE NoChange(st, "")

\* emergency_release that resets the flags and issues nothing
EmergencyRelease_FlagsOnly(st) ==
    [state |-> [st EXCEPT !.is_left_down = FALSE, !.is_right_down = FALSE],
     out   |-> <<>>]

\* ClickHandler.emergency_release
EmergencyRelease(st) ==
    LET s1 == IF st.is_left_down THEN [st EXCEPT !.is_left_down = FALSE] ELSE st
        s2 == IF s1.is_right_down THEN [s1 EXCEPT !.is_right_down = FALSE] ELSE s1
    IN  [state |-> s2,
         out   |-> (IF st.is_left_down THEN <<"left_up">> ELSE <<>>)
                   \o (IF s1.is_right_down THEN <<"right_up">> ELSE <<>>)]

----------------------------------------------------------------------------
(* HandState                                                               *)

\* the literal 0.1 of get_snapshot ("100ms timeout")
STALE_TIMEOUT == 100

\* HandState.__init__, constructed at perf_counter() = now
HandState(now) ==
    [index_x |-> 0, index_y |-> 0, thumb_x |-> 0, thumb_y |-> 0,
     pinch_dist |-> 100,
     hand_detected |-> FALSE, cursor_active |-> FALSE,
     mode |-> "idle", mode_text |-> "",
     last_update |-> now,
     vision_fps |-> 0, cursor_fps |-> 0]

\* HandState.update
HS_Update(h, index_x, index_y, thumb_x, thumb_y, pinch_dist, mode, cursor_active, now) ==
    [h EXCEPT !.index_x = index_x, !.index_y = index_y,
              !.thumb_x = thumb_x, !.thumb_y = thumb_y,
              !.pinch_dist = pinch_dist, !.mode = mode,
              !.cursor_active = cursor_active,
              !.hand_detected = TRUE,
              !.last_update = now]

\* the dict get_snapshot returns
SnapshotOf(h) ==
    [index_x |-> h.index_x, index_y |-> h.index_y,
     thumb_x |-> h.thumb_x, thumb_y |-> h.thumb_y,
     pinch_dist |-> h.pinch_dist, mode |-> h.mode,
     cursor_active |-> h.cursor_active, detected |-> h.hand_detected]

\* get_snapshot without the emergency timeout
HS_Timeout_None(h, now) == h

\* an emergency timeout that also puts pinch_dist back to its initial value
HS_Timeout_ResetsPinch(h, now) ==
    IF now - h.last_update > STALE_TIMEOUT
    THEN [h EXCEPT !.hand_detected = FALSE, !.cursor_active = FALSE, !.mode = "idle",
                   !.pinch_dist = 100]
    ELSE h

\* the "emergency timeout" of get_snapshot: the stored state after the check
HS_Timeout(h, now) ==
    IF now - h.last_update > STALE_TIMEOUT
    THEN [h EXCEPT !.hand_detected = FALSE, !.cursor_active = FALSE, !.mode = "idle"]
    ELSE h

\* HandState.get_snapshot: the stored state after the call, and the dict
HS_GetSnapshot(h, now) ==
    [hs |-> HS_Timeout(h, now), snap |-> SnapshotOf(HS_Timeout(h, now))]

\* a clear that also puts last_update back to zero
HS_Clear_ResetsTime(h) ==
    [h EXCEPT !.hand_detected = FALSE, !.cursor_active = FALSE, !.mode = "idle",
              !.last_update = 0]

\* HandState.clear
HS_Clear(h) ==
    [h EXCEPT !.hand_detected = FALSE, !.cursor_active = FALSE, !.mode = "idle"]

\* HandState.update, get_snapshot and clear statement by statement: each
\* body runs inside "with self.lock", one assignment or one read at a time.

\* the arguments of the update calls of the vision loop: two observations
\* that differ in every field
UpdateArgs ==
    { [index_x |-> 100, index_y |-> 110, thumb_x |-> 120, thumb_y |-> 130,
       pinch_dist |-> 25, mode |-> "cursor", cursor_active |-> TRUE],
      [index_x |-> 200, index_y |-> 210, thumb_x |-> 220, thumb_y |-> 230,
       pinch_dist |-> 55, mode |-> "scrolling", cursor_active |-> FALSE] }

\* no call in progress
NoArgs ==
    [index_x |-> 0, index_y |-> 0, thumb_x |-> 0, thumb_y |-> 0,
     pinch_dist |-> 100, mode |-> "idle", cursor_active |-> FALSE]

\* the assignments of update, in program order
UpdateFields ==
    <<"index_x", "index_y", "thumb_x", "thumb_y", "pinch_dist", "mode",
      "cursor_active", "hand_detected", "last_update">>

\* the value the k-th assignment of update stores
UpdateValue(a, k, now) ==
    IF k <= 7 THEN a[UpdateFields[k]] ELSE IF k = 8 THEN TRUE ELSE now

\* a clear that leaves the mode as it is
ClearFields_KeepsMode == <<"hand_detected", "cursor_active">>

\* the assignments of clear, and of the emergency timeout of get_snapshot
ClearFields == <<"hand_detected", "cursor_active", "mode">>
ClearValue(k) == IF k = 3 THEN "idle" ELSE FALSE

\* the keys of the dict of get_snapshot in the order their values are read,
\* and the attribute each one reads
SnapshotKeys ==
    <<"index_x", "index_y", "thumb_x", "thumb_y", "pinch_dist", "mode",
      "cursor_active", "detected">>
SnapshotField(k) == IF k = 8 THEN "hand_detected" ELSE SnapshotKeys[k]

\* a dict none of whose values has been read yet
Unread ==
    [index_x |-> -1, index_y |-> -1, thumb_x |-> -1, thumb_y |-> -1,
     pinch_dist |-> -1, mode |-> "unread", cursor_active |-> FALSE,
     detected |-> FALSE]

\* a lock that lets every thread in
CanAcquire_NoLock(l) == TRUE

\* threading.Lock: "with self.lock" enters only when no thread holds it
CanAcquire(l) == l = "free"

\* the threads between two HandState calls
VisionIdle == [pc |-> "idle", op |-> "none", k |-> 0, args |-> NoArgs]
CursorIdle ==
    [pc |-> "idle", k |-> 0, snap |-> Unread, ret |-> Unread,
     returned |-> FALSE, overlap |-> FALSE]


----------------------------------------------------------------------------
(* CursorSmoother.  Positions are whole pixels; alpha is in percent.       *)

NoneXY == [x |-> -1, y |-> -1, set |-> FALSE]

\* a filter whose two weights do not add up to one
Smooth_NoComplement(sm, alpha_normal, alpha_sniper, raw_x, raw_y, sniper_mode) ==
    LET alpha == IF sniper_mode THEN alpha_sniper ELSE alpha_normal
    IN  IF ~sm.set THEN [x |-> raw_x, y |-> raw_y, set |-> TRUE]
        ELSE [x |-> (alpha * raw_x + alpha * sm.x) \div 100,
              y |-> (alpha * raw_y + alpha * sm.y) \div 100,
              set |-> TRUE]

\* CursorSmoother.smooth: the filter state after the call (also the result)
Smooth(sm, alpha_normal, alpha_sniper, raw_x, raw_y, sniper_mode) ==
    LET alpha == IF sniper_mode THEN alpha_sniper ELSE alpha_normal
    IN  IF ~sm.set THEN [x |-> raw_x, y |-> raw_y, set |-> TRUE]
        ELSE [x |-> (alpha * raw_x + (100 - alpha) * sm.x) \div 100,
              y |-> (alpha * raw_y + (100 - alpha) * sm.y) \div 100,
              set |-> TRUE]

\* CursorSmoother.reset
SmoothReset(sm) == NoneXY

----------------------------------------------------------------------------
(* FastSmoother (gesture_math).  Positions are whole numbers; alpha is in  *)
(* percent.                                                                *)

\* the literal 40 of FastSmoother.update ("Sniper mode threshold")
SNIPER_FINGER_DISTANCE == 40

\* FastSmoother.__init__
FastSmoother(alpha, sniper_alpha) ==
    [alpha |-> alpha, sniper_alpha |-> sniper_alpha,
     x |-> -1, y |-> -1, set |-> FALSE, freeze_frames |-> 0]

\* an update that filters on, and counts down, while frozen
FS_Update_NoFreeze(s, raw_x, raw_y, finger_distance) ==
    LET sniper == finger_distance < SNIPER_FINGER_DISTANCE
        alpha  == IF sniper THEN s.sniper_alpha ELSE s.alpha
        s1 == IF ~s.set THEN [s EXCEPT !.x = raw_x, !.y = raw_y, !.set = TRUE]
              ELSE [s EXCEPT !.x = (alpha * raw_x + (100 - alpha) * s.x) \div 100,
                             !.y = (alpha * raw_y + (100 - alpha) * s.y) \div 100]
        s2 == [s1 EXCEPT !.freeze_frames = IF @ > 0 THEN @ - 1 ELSE 0]
    IN  [sm |-> s2,
         ret |-> [x |-> s2.x, y |-> s2.y, set |-> s2.set,
                  mode |-> IF s.freeze_frames > 0 THEN "frozen"
                           ELSE IF sniper THEN "sniper" ELSE "normal"]]

\* FastSmoother.update: the smoother after the call, and the tuple returned
\* (set says that x and y are not None)
FS_Update(s, raw_x, raw_y, finger_distance) ==
    IF s.freeze_frames > 0
    THEN [sm  |-> [s EXCEPT !.freeze_frames = @ - 1],
          ret |-> [x |-> s.x, y |-> s.y, set |-> s.set, mode |-> "frozen"]]
    ELSE LET sniper == finger_distance < SNIPER_FINGER_DISTANCE
             alpha  == IF sniper THEN s.sniper_alpha ELSE s.alpha
             s1 == IF ~s.set THEN [s EXCEPT !.x = raw_x, !.y = raw_y, !.set = TRUE]
                   ELSE [s EXCEPT !.x = (alpha * raw_x + (100 - alpha) * s.x) \div 100,
                                  !.y = (alpha * raw_y + (100 - alpha) * s.y) \div 100]
         IN  [sm  |-> s1,
              ret |-> [x |-> s1.x, y |-> s1.y, set |-> TRUE,
                       mode |-> IF sniper THEN "sniper" ELSE "normal"]]

\* FastSmoother.trigger_click_freeze
FS_TriggerClickFreeze(s, frames) == [s EXCEPT !.freeze_frames = frames]

\* FastSmoother.reset
FS_Reset(s) == [s EXCEPT !.x = -1, !.y = -1, !.set = FALSE, !.freeze_frames = 0]

----------------------------------------------------------------------------
(* GestureRecognizer, on what the landmark detector reports for a frame    *)

Fingers(thumb, index, middle, ring, pinky) ==
    [thumb |-> thumb, index |-> index, middle |-> middle, ring |-> ring, pinky |-> pinky]

\* every combination of the five finger states
AllFingers ==
    {Fingers(b[1], b[2], b[3], b[4], b[5]) :
        b \in BOOLEAN \X BOOLEAN \X BOOLEAN \X BOOLEAN \X BOOLEAN}

\* a recognize_mode that tests the fist before the shaka
RecognizeMode_MediaFirst(fingers, pinch_dist) ==
    IF fingers.index /\ ~fingers.middle /\ ~fingers.ring THEN "cursor"
    ELSE IF fingers.index /\ fingers.middle /\ fingers.ring /\ ~fingers.pinky THEN "scrolling"
    ELSE IF ~(fingers.index \/ fingers.middle \/ fingers.ring) THEN "media"
    ELSE IF fingers.thumb /\ fingers.pinky /\ ~fingers.index THEN "volume"
    ELSE "idle"

\* a recognize_mode that reports a pinching index finger as CLICKING
RecognizeMode_Clicking(fingers, pinch_dist) ==
    IF fingers.index /\ ~fingers.middle /\ ~fingers.ring
    THEN IF pinch_dist < SNIPER_DISTANCE THEN "clicking" ELSE "cursor"
    ELSE IF fingers.index /\ fingers.middle /\ fingers.ring /\ ~fingers.pinky THEN "scrolling"
    ELSE IF fingers.thumb /\ fingers.pinky /\ ~fingers.index THEN "volume"
    ELSE IF ~(fingers.index \/ fingers.middle \/ fingers.ring) THEN "media"
    ELSE "idle"

\* GestureRecognizer.recognize_mode
RecognizeMode(fingers, pinch_dist) ==
    IF fingers.index /\ ~fingers.middle /\ ~fingers.ring THEN "cursor"
    ELSE IF fingers.index /\ fingers.middle /\ fingers.ring /\ ~fingers.pinky THEN "scrolling"
    ELSE IF fingers.thumb /\ fingers.pinky /\ ~fingers.index THEN "volume"
    ELSE IF ~(fingers.index \/ fingers.middle \/ fingers.ring) THEN "media"
    ELSE "idle"

\* np.sqrt on the squared distances the frames of the model produce, which
\* are squares of whole numbers
RECURSIVE Newton(_, _)
Newton(n, x) == LET y == (x + n \div x) \div 2 IN IF y >= x THEN x ELSE Newton(n, y)
Sqrt(n) == IF n = 0 THEN 0 ELSE Newton(n, n)

\* GestureRecognizer.calculate_pinch_distance, on pixel coordinates
CalculatePinchDistance(f) ==
    Sqrt((f.thumb_x - f.index_x) * (f.thumb_x - f.index_x)
         + (f.thumb_y - f.index_y) * (f.thumb_y - f.index_y))

----------------------------------------------------------------------------
(* Inputs of the model                                                     *)

\* the frame size the camera is opened with (camera_id=0, width=640, height=480)
Cam == [w |-> 640, h |-> 480]
\* pyautogui.size()
Screen == [w |-> 1920, h |-> 1080]

NoFrame == [kind |-> "none"]
\* a frame in which the detector finds no hand
EmptyFrame == [kind |-> "frame", hand |-> FALSE]
\* a frame with a hand: the finger states and the landmarks the loop reads,
\* in pixels (pinky_y in thousandths of the frame height)
HandFrame(fingers, dx, dy) ==
    [kind |-> "frame", hand |-> TRUE, fingers |-> fingers,
     index_x |-> 320, index_y |-> 240, thumb_x |-> 320 + dx, thumb_y |-> 240 + dy,
     middle_y |-> 300, pinky_y |-> 200]

Pointing == Fingers(FALSE, TRUE, FALSE, FALSE, FALSE)
\* the frames the camera can deliver: no hand; index finger up with the
\* thumb 25, 40 or 55 px away; index and middle finger up (no gesture)
Frames ==
    {EmptyFrame,
     HandFrame(Pointing, 15, 20), HandFrame(Pointing, 24, 32), HandFrame(Pointing, 33, 44),
     HandFrame(Fingers(FALSE, TRUE, TRUE, FALSE, FALSE), 33, 44)}

\* one frame for each gesture mode, the thumb 40 px from the index finger:
\* pointing, three fingers, shaka, fist, index and middle finger; and no hand
GestureFrames ==
    {EmptyFrame,
     HandFrame(Pointing, 24, 32),
     HandFrame(Fingers(FALSE, TRUE, TRUE, TRUE, FALSE), 24, 32),
     HandFrame(Fingers(TRUE, FALSE, FALSE, FALSE, TRUE), 24, 32),
     HandFrame(Fingers(FALSE, FALSE, FALSE, FALSE, FALSE), 24, 32),
     HandFrame(Fingers(FALSE, TRUE, TRUE, FALSE, FALSE), 24, 32)}

\* the values an FPS average takes.  Each loop measures its own speed with
\* perf_counter() readings finer than the clock of the model, so what it
\* stores in vision_fps / cursor_fps is an input here.
FpsValues == {30}

\* the clock of the model advances in steps of TickDeltas
TickDeltas == {100}
MaxTime == 700

----------------------------------------------------------------------------
(* vision_process_loop and cursor_thread                                   *)

\* no object under direct calls
NoObject == [op |-> "none"]
\* SharedState() and the vision loop before any command: the queue is empty
\* (buffer: put but not yet written to the pipe by the feeder thread of the
\* producer; pipe: what the consumer can see), nothing was enqueued (enq) or
\* dispatched (deq), no command thread runs, none has finished (done) or
\* failed, and the loop is running, at the drain step of its first iteration
\* (pc: "drain" at the test of the queue, "get" inside a get() that waits
\* for an item, "exec" inside a command, "frame" in the rest of the iteration)
NoCommands ==
    [buffer |-> <<>>, pipe |-> <<>>, enq |-> <<>>, deq |-> <<>>,
     threads |-> {}, done |-> {}, failed |-> {}, running |-> TRUE,
     pc |-> "drain", frame_count |-> 0]

\* multiprocessing.Queue.put
QueuePut(b, cmd) == [b EXCEPT !.buffer = Append(@, cmd)]

\* a feeder that loses the item it takes from the buffer
QueueFeed_Drops(b) == [b EXCEPT !.buffer = Tail(@)]

\* the feeder thread of the queue writes the oldest buffered item to the pipe
QueueFeed(b) == [b EXCEPT !.buffer = Tail(@), !.pipe = Append(@, Head(b.buffer))]

\* a drain step that does not test the queue before the get
QueueEmpty_NotTested(b) == FALSE

\* multiprocessing.Queue.empty: nothing in the pipe
QueueEmpty(b) == b.pipe = <<>>

\* a get that takes the newest item
QueueGet_Newest(b) ==
    [item |-> b.pipe[Len(b.pipe)],
     bus  |-> [b EXCEPT !.pipe = SubSeq(@, 1, Len(@) - 1)]]

\* multiprocessing.Queue.get on a queue that is not empty
QueueGet(b) == [item |-> Head(b.pipe), bus |-> [b EXCEPT !.pipe = Tail(@)]]

\* execute_command: the exception of a command that raises is caught and
\* logged inside the call
ExecuteCommand(cmd) == IF cmd.raises THEN "logged" ELSE "done"

\* the command is executed by the loop itself, and what it raises is not caught
Dispatch_Inline(b, cmd) ==
    IF cmd.raises
    THEN [b EXCEPT !.deq = Append(@, cmd), !.running = FALSE]
    ELSE [b EXCEPT !.deq = Append(@, cmd), !.done = @ \cup {cmd.id}]

\* the loop calls execute_command itself and is inside it for as long as the
\* command takes
Dispatch_OnLoopThread(b, cmd) ==
    [b EXCEPT !.deq = Append(@, cmd), !.threads = @ \cup {cmd}, !.pc = "exec"]

\* threading.Thread(target=execute_command, args=(cmd, ctx), daemon=True).start()
Dispatch(b, cmd) == [b EXCEPT !.deq = Append(@, cmd), !.threads = @ \cup {cmd}]

\* the record of a step of operation op that called nothing
Step(op) ==
    [op |-> op, did |-> <<>>, out |-> <<>>, move |-> [x |-> -1, y |-> -1],
     pre |-> [is_left_down |-> FALSE, is_right_down |-> FALSE],
     stale |-> FALSE,
     stored |-> [hand_detected |-> FALSE, cursor_active |-> FALSE, mode |-> "idle"],
     snap |-> SnapshotOf(HandState(0))]

\* everything but the ClickHandler and the clocks, as constructed
RestInit ==
    /\ hs = HandState(0)
    /\ cam = [frame |-> NoFrame, ret |-> FALSE]
    /\ vloop = [frame_count |-> 0, last_gesture_time |-> 0,
                vision_smoother |-> NoneXY, stopped |-> FALSE]
    /\ cloop = [smoother |-> NoneXY]
    /\ lock = "free"
    /\ vthr = VisionIdle
    /\ cthr = CursorIdle
    /\ bus = NoCommands
    /\ last = Step("init")

Init ==
    /\ state = ClickState
    /\ wall = EpochOffset
    /\ perf = 0
    /\ trace = <<>>
    /\ obj = NoObject
    /\ RestInit

\* time passes
Tick ==
    /\ perf < MaxTime
    /\ \E d \in TickDeltas : perf' = perf + d /\ wall' = wall + d
    /\ last' = Step("tick")
    /\ UNCHANGED <<state, trace, hs, vision_vars, cloop, call_vars, unit_vars>>

\* a capture loop that stores what cap.read() returns, success or not
Capture_Unconditional(c, f) == [c EXCEPT !.frame = f, !.ret = (f # NoFrame)]

\* ThreadedCamera._capture_loop: the camera after cap.read() has returned
\* frame f, NoFrame standing for a capture that failed (ret false): only a
\* capture that succeeds is stored
Capture(c, f) == IF f # NoFrame THEN [c EXCEPT !.frame = f, !.ret = TRUE] ELSE c

\* The camera as a read of vision_process_loop finds it: as the previous
\* read left it, or after the capture thread has stored a frame since then.
\* (Only the latest capture before a read is ever seen, and a capture of the
\* frame already held stands for no capture at all.)
CameraAfter(F) == {cam} \cup {Capture(cam, f) : f \in F \cup {NoFrame}}
CameraAtRead == CameraAfter(Frames)

\* ThreadedCamera.read
CameraRead(c) ==
    IF c.frame # NoFrame THEN [ret |-> c.ret, frame |-> c.frame]
    ELSE [ret |-> FALSE, frame |-> NoFrame]

\* the loop stops iterating (it crashes, or blocks in a call for good)
VisionStops ==
    /\ ~vloop.stopped
    /\ vloop' = [vloop EXCEPT !.stopped = TRUE]
    /\ last' = Step("stop")
    /\ UNCHANGED <<state, wall, perf, trace, hs, cam, cloop, call_vars, unit_vars>>

\* an iteration with frame_count odd: "frame skipping"
VisionSkip ==
    /\ ~vloop.stopped
    /\ vloop.frame_count % 2 # 0
    /\ vloop' = [vloop EXCEPT !.frame_count = (@ + 1) % 4]
    /\ last' = Step("skip")
    /\ UNCHANGED <<state, wall, perf, trace, hs, cam, cloop, call_vars, unit_vars>>

\* an iteration on which camera.read() yields no frame: continue
VisionNoFrame ==
    /\ ~vloop.stopped
    /\ vloop.frame_count % 2 = 0
    /\ \E c \in CameraAtRead : LET r == CameraRead(c) IN
       /\ cam' = c
       /\ ~r.ret \/ r.frame = NoFrame
    /\ last' = Step("no_frame")
    /\ UNCHANGED <<state, wall, perf, trace, hs, vloop, cloop, call_vars, unit_vars>>

\* the "HAND DETECTED" branch on frame f: the HandState, ClickState and loop
\* locals after it, the calls made and the OS calls issued
HandBranch(f, h, st, vl, now, current_time) ==
    LET pinch_dist == CalculatePinchDistance(f)
        mode == RecognizeMode(f.fingers, pinch_dist)
        vs   == Smooth(vl.vision_smoother, 30, 15, f.index_x, f.index_y, FALSE)
        raw(m) == HS_Update(h, f.index_x, f.index_y, f.thumb_x, f.thumb_y,
                            pinch_dist, m, FALSE, now)
        vl1  == [vl EXCEPT !.vision_smoother = vs]
        same == [hs |-> raw(mode), state |-> st, vloop |-> vl1,
                 did |-> <<"update">>, out |-> <<>>]
    IN  IF mode = "cursor" THEN
            LET r == ProcessPinch(st, pinch_dist, current_time)
            IN  [hs |-> HS_Update(h, vs.x, vs.y, f.thumb_x, f.thumb_y,
                                  pinch_dist, mode, TRUE, now),
                 state |-> r.state, vloop |-> vl1,
                 did |-> <<"update", "process_pinch">>, out |-> r.out]
        ELSE IF mode = "scrolling" /\ vl.frame_count % 4 = 0 THEN
            LET delta == f.middle_y - (Cam.h \div 2)
                far   == (IF delta < 0 THEN -delta ELSE delta) > 40
            IN  [same EXCEPT !.out = IF ~far THEN <<>>
                                     ELSE IF delta > 0 THEN <<"scroll_down">>
                                     ELSE <<"scroll_up">>]
        ELSE IF mode = "volume" THEN
            IF current_time - vl.last_gesture_time > 150 /\ f.pinky_y < 300 THEN
                [same EXCEPT !.out = <<"key_volumeup">>,
                             !.vloop.last_gesture_time = current_time]
            ELSE IF current_time - vl.last_gesture_time > 150 /\ f.pinky_y > 700 THEN
                [same EXCEPT !.out = <<"key_volumedown">>,
                             !.vloop.last_gesture_time = current_time]
            ELSE same
        ELSE IF mode = "media" THEN
            IF current_time - vl.last_gesture_time > 1500 THEN
                [same EXCEPT !.out = <<"key_space">>,
                             !.vloop.last_gesture_time = current_time]
            ELSE same
        ELSE same

\* an iteration on a frame in which a hand is detected, the camera being
\* one of cams at the read
VisionHandOn(cams) ==
    /\ ~vloop.stopped
    /\ vloop.frame_count % 2 = 0
    /\ \E c \in cams : LET r == CameraRead(c) IN
       /\ cam' = c
       /\ r.ret /\ r.frame # NoFrame /\ r.frame.hand
       /\ \E fps \in FpsValues :
            LET b == HandBranch(r.frame, [hs EXCEPT !.vision_fps = fps],
                                state, vloop, perf, wall)
            IN  /\ hs' = b.hs
                /\ state' = b.state
                /\ vloop' = [b.vloop EXCEPT !.frame_count = (@ + 1) % 4]
                /\ last' = [Step("hand") EXCEPT
                              !.did = b.did, !.out = b.out,
                              !.pre = [is_left_down |-> state.is_left_down,
                                       is_right_down |-> state.is_right_down]]
    /\ UNCHANGED <<wall, perf, trace, cloop, call_vars, unit_vars>>

VisionHand == VisionHandOn(CameraAtRead)

\* an iteration on a frame in which no hand is detected, the camera being
\* one of cams at the read
VisionNoHandOn(cams) ==
    /\ ~vloop.stopped
    /\ vloop.frame_count % 2 = 0
    /\ \E c \in cams : LET r == CameraRead(c) IN
       /\ cam' = c
       /\ r.ret /\ r.frame # NoFrame /\ ~r.frame.hand
       /\ \E fps \in FpsValues :
            LET e == EmergencyRelease(state)
            IN  /\ hs' = HS_Clear([hs EXCEPT !.vision_fps = fps])
                /\ state' = e.state
                /\ last' = [Step("no_hand") EXCEPT
                              !.did = <<"clear", "emergency_release">>, !.out = e.out,
                              !.pre = [is_left_down |-> state.is_left_down,
                                       is_right_down |-> state.is_right_down]]
    /\ vloop' = [vloop EXCEPT !.frame_count = (@ + 1) % 4]
    /\ UNCHANGED <<wall, perf, trace, cloop, call_vars, unit_vars>>

VisionNoHand == VisionNoHandOn(CameraAtRead)

\* a clamp that has lost its lower bound
Clip_NoLower(v, lo, hi) == IF v > hi THEN hi ELSE v

\* np.clip(v, lo, hi)
Clip(v, lo, hi) == IF v < lo THEN lo ELSE IF v > hi THEN hi ELSE v

\* the cursor position cursor_thread moves to for the smoothed position sm
ScreenPos(sm) ==
    [x |-> Clip(((sm.x - 70) * Screen.w) \div (Cam.w - 2 * 70), 0, Screen.w - 1),
     y |-> Clip(((sm.y - 70) * Screen.h) \div (Cam.h - 2 * 70), 0, Screen.h - 1)]

\* a cursor thread that follows every detected hand
CursorActive_DetectedOnly(snap) == snap.detected

\* the test of cursor_thread on the snapshot it has read
CursorActive(snap) == snap.detected /\ snap.cursor_active

\* one iteration of cursor_thread.  Its local `state` (the snapshot) is read
\* only inside the iteration that assigns it: it is kept in last.snap.
CursorIter ==
    /\ LET r  == HS_GetSnapshot(hs, perf)
           go == CursorActive(r.snap)
           sm == IF go THEN Smooth(cloop.smoother, 40, 15, r.snap.index_x, r.snap.index_y,
                                   r.snap.pinch_dist < SNIPER_DISTANCE)
                 ELSE cloop.smoother
       IN  /\ cloop' = [smoother |-> sm]
           /\ last' = [Step("cursor") EXCEPT
                         !.did = <<"get_snapshot">>,
                         !.out = IF go THEN <<"move">> ELSE <<>>,
                         !.move = IF go THEN ScreenPos(sm) ELSE @,
                         !.stale = perf - hs.last_update > STALE_TIMEOUT,
                         !.stored = [hand_detected |-> hs.hand_detected,
                                     cursor_active |-> hs.cursor_active,
                                     mode |-> hs.mode],
                         !.snap = r.snap]
           /\ \E fps \in FpsValues : hs' = [r.hs EXCEPT !.cursor_fps = fps]
    /\ UNCHANGED <<state, wall, perf, trace, vision_vars, call_vars, unit_vars>>

Next ==
    \/ Tick
    \/ VisionSkip
    \/ VisionNoFrame
    \/ VisionHand
    \/ VisionNoHand
    \/ CursorIter

Spec == Init /\ [][Next]_vars

\* vision_process_loop may also stop iterating, while time goes on and
\* cursor_thread (a thread of its own) keeps running
NextLive == Next \/ VisionStops
SpecLive == Init /\ [][NextLive]_vars /\ WF_vars(Tick) /\ WF_vars(CursorIter)

\* the two loops on frames of every gesture mode
VisionGesture == VisionHandOn(CameraAfter(GestureFrames))
VisionNoGesture == VisionNoHandOn(CameraAfter(GestureFrames))

NextGesture ==
    \/ Tick
    \/ VisionSkip
    \/ VisionNoFrame
    \/ VisionGesture
    \/ VisionNoGesture
    \/ CursorIter

SpecGesture == Init /\ [][NextGesture]_vars

----------------------------------------------------------------------------
(* The two loops inside their HandState calls, statement by statement.     *)

hand_frame == <<state, wall, perf, trace, cam, vloop, cloop, last>>

\* vision_process_loop calls hand_state.update(...)
VisionCallsUpdate ==
    /\ vthr.pc = "idle"
    /\ \E a \in UpdateArgs :
           vthr' = [pc |-> "acquire", op |-> "update", k |-> 1, args |-> a]
    /\ UNCHANGED <<hs, lock, cthr, hand_frame, unit_vars>>

\* vision_process_loop calls hand_state.clear()
VisionCallsClear ==
    /\ vthr.pc = "idle"
    /\ vthr' = [pc |-> "acquire", op |-> "clear", k |-> 1, args |-> NoArgs]
    /\ UNCHANGED <<hs, lock, cthr, hand_frame, unit_vars>>

\* "with self.lock" of update or clear is entered
VisionAcquires ==
    /\ vthr.pc = "acquire"
    /\ CanAcquire(lock)
    /\ lock' = "vision"
    /\ vthr' = [vthr EXCEPT !.pc = "body"]
    /\ UNCHANGED <<hs, cthr, hand_frame, unit_vars>>

\* one assignment of update or of clear
VisionWrites ==
    /\ vthr.pc = "body"
    /\ LET fields == IF vthr.op = "update" THEN UpdateFields ELSE ClearFields
           value  == IF vthr.op = "update"
                     THEN UpdateValue(vthr.args, vthr.k, perf)
                     ELSE ClearValue(vthr.k)
       IN  /\ hs' = [hs EXCEPT ![fields[vthr.k]] = value]
           /\ vthr' = IF vthr.k = Len(fields)
                      THEN [vthr EXCEPT !.pc = "release"]
                      ELSE [vthr EXCEPT !.k = vthr.k + 1]
    /\ UNCHANGED <<lock, cthr, hand_frame, unit_vars>>

\* the with block of update or clear is left
VisionReleases ==
    /\ vthr.pc = "release"
    /\ lock' = "free"
    /\ vthr' = VisionIdle
    /\ UNCHANGED <<hs, cthr, hand_frame, unit_vars>>

\* hand_state.vision_fps = ..., outside the lock
VisionFps ==
    /\ vthr.pc = "idle"
    /\ \E fps \in FpsValues : hs' = [hs EXCEPT !.vision_fps = fps]
    /\ UNCHANGED <<lock, vthr, cthr, hand_frame, unit_vars>>

\* cursor_thread calls hand_state.get_snapshot()
CursorCallsSnapshot ==
    /\ cthr.pc = "idle"
    /\ cthr' = [cthr EXCEPT !.pc = "acquire", !.snap = Unread,
                            !.overlap = (vthr.op = "update" /\ vthr.pc = "body")]
    /\ UNCHANGED <<hs, lock, vthr, hand_frame, unit_vars>>

\* "with self.lock" of get_snapshot is entered
CursorAcquires ==
    /\ cthr.pc = "acquire"
    /\ CanAcquire(lock)
    /\ lock' = "cursor"
    /\ cthr' = [cthr EXCEPT !.pc = "check"]
    /\ UNCHANGED <<hs, vthr, hand_frame, unit_vars>>

\* the test of the emergency timeout
CursorChecks ==
    /\ cthr.pc = "check"
    /\ cthr' = [cthr EXCEPT
                   !.pc = IF perf - hs.last_update > STALE_TIMEOUT
                          THEN "timeout" ELSE "read",
                   !.k = 1]
    /\ UNCHANGED <<hs, lock, vthr, hand_frame, unit_vars>>

\* one assignment of the emergency timeout
CursorTimeoutWrites ==
    /\ cthr.pc = "timeout"
    /\ hs' = [hs EXCEPT ![ClearFields[cthr.k]] = ClearValue(cthr.k)]
    /\ cthr' = IF cthr.k = Len(ClearFields)
               THEN [cthr EXCEPT !.pc = "read", !.k = 1]
               ELSE [cthr EXCEPT !.k = cthr.k + 1]
    /\ UNCHANGED <<lock, vthr, hand_frame, unit_vars>>

\* one value of the returned dict is read
CursorReads ==
    /\ cthr.pc = "read"
    /\ cthr' = [cthr EXCEPT
                   !.snap = [cthr.snap EXCEPT
                                ![SnapshotKeys[cthr.k]] = hs[SnapshotField(cthr.k)]],
                   !.pc = IF cthr.k = Len(SnapshotKeys) THEN "release" ELSE "read",
                   !.k = IF cthr.k = Len(SnapshotKeys) THEN 0 ELSE cthr.k + 1]
    /\ UNCHANGED <<hs, lock, vthr, hand_frame, unit_vars>>

\* get_snapshot leaves the with block and returns the dict
CursorReturns ==
    /\ cthr.pc = "release"
    /\ lock' = "free"
    /\ cthr' = [cthr EXCEPT !.pc = "idle", !.ret = cthr.snap, !.returned = TRUE]
    /\ UNCHANGED <<hs, vthr, hand_frame, unit_vars>>

\* hand_state.cursor_fps = ..., outside the lock
CursorFps ==
    /\ cthr.pc = "idle"
    /\ \E fps \in FpsValues : hs' = [hs EXCEPT !.cursor_fps = fps]
    /\ UNCHANGED <<lock, vthr, cthr, hand_frame, unit_vars>>

NextHand ==
    \/ Tick
    \/ VisionCallsUpdate
    \/ VisionCallsClear
    \/ VisionAcquires
    \/ VisionWrites
    \/ VisionReleases
    \/ VisionFps
    \/ CursorCallsSnapshot
    \/ CursorAcquires
    \/ CursorChecks
    \/ CursorTimeoutWrites
    \/ CursorReads
    \/ CursorReturns
    \/ CursorFps

SpecHand == Init /\ [][NextHand]_vars


----------------------------------------------------------------------------
(* GestureRecognizer.recognize_mode called directly, frame after frame     *)

CallRecognizeMode ==
    /\ \E f \in AllFingers, d \in Dists :
         obj' = [op |-> "recognize_mode", fingers |-> f, pinch_dist |-> d,
                 mode |-> RecognizeMode(f, d),
                 before |-> IF obj.op = "recognize_mode" THEN obj.mode ELSE "none"]
    /\ UNCHANGED <<state, wall, perf, trace, hs, cam, vloop, cloop, call_vars, bus, last>>

NextRecognize == CallRecognizeMode

SpecRecognize == Init /\ [][NextRecognize]_vars

----------------------------------------------------------------------------
(* A smoother driven directly: any sequence of update (smooth),            *)
(* trigger_click_freeze and reset calls on a CursorSmoother() or a         *)
(* FastSmoother()                                                          *)

MaxSmootherCalls == 5
MaxFreeze == 2
RawPoints == {<<100, 100>>, <<400, 300>>}
FingerDistances == {25, 100}

InitSmoother ==
    /\ state = ClickState
    /\ wall = 0
    /\ perf = 0
    /\ trace = <<>>
    /\ obj \in {[kind |-> "CursorSmoother", sm |-> NoneXY],
                [kind |-> "FastSmoother", sm |-> FastSmoother(35, 15)]}
    /\ RestInit

\* the record of a call: the smoother before and after, and what is returned
SmootherCall(op, raw, d, frames, post, ret) ==
    [op |-> op, raw |-> raw, dist |-> d, frames |-> frames,
     pre |-> obj.sm, post |-> post, ret |-> ret]

NoReturn == [x |-> -1, y |-> -1, set |-> FALSE, mode |-> "none"]

\* smoother.smooth(raw_x, raw_y, sniper) as cursor_thread calls it, or
\* FastSmoother.update(raw_x, raw_y, finger_distance)
SmootherUpdate ==
    /\ Len(trace) < MaxSmootherCalls
    /\ \E raw \in RawPoints, d \in FingerDistances :
         LET r == IF obj.kind = "FastSmoother"
                  THEN FS_Update(obj.sm, raw[1], raw[2], d)
                  ELSE LET sm == Smooth(obj.sm, 40, 15, raw[1], raw[2], d < SNIPER_DISTANCE)
                       IN  [sm |-> sm,
                            ret |-> [x |-> sm.x, y |-> sm.y, set |-> TRUE,
                                     mode |-> IF d < SNIPER_DISTANCE THEN "sniper"
                                              ELSE "normal"]]
         IN  /\ obj' = [obj EXCEPT !.sm = r.sm]
             /\ trace' = Append(trace, SmootherCall("update", raw, d, 0, r.sm, r.ret))
    /\ UNCHANGED <<state, wall, perf, hs, cam, vloop, cloop, call_vars, bus, last>>

\* FastSmoother.trigger_click_freeze(frames)
SmootherFreeze ==
    /\ Len(trace) < MaxSmootherCalls
    /\ obj.kind = "FastSmoother"
    /\ \E n \in 0..MaxFreeze :
         LET sm == FS_TriggerClickFreeze(obj.sm, n)
         IN  /\ obj' = [obj EXCEPT !.sm = sm]
             /\ trace' = Append(trace, SmootherCall("freeze", <<0, 0>>, 0, n, sm, NoReturn))
    /\ UNCHANGED <<state, wall, perf, hs, cam, vloop, cloop, call_vars, bus, last>>

\* reset()
SmootherReset ==
    /\ Len(trace) < MaxSmootherCalls
    /\ LET sm == IF obj.kind = "FastSmoother" THEN FS_Reset(obj.sm)
                 ELSE SmoothReset(obj.sm)
       IN  /\ obj' = [obj EXCEPT !.sm = sm]
           /\ trace' = Append(trace, SmootherCall("reset", <<0, 0>>, 0, 0, sm, NoReturn))
    /\ UNCHANGED <<state, wall, perf, hs, cam, vloop, cloop, call_vars, bus, last>>

NextSmoother == SmootherUpdate \/ SmootherFreeze \/ SmootherReset

SpecSmoother == InitSmoother /\ [][NextSmoother]_vars

----------------------------------------------------------------------------
(* A fresh exponential smoother with alpha_normal = 0.4 fed one constant   *)
(* input.  Positions are in units of 1/10000 pixel.                        *)

ConvergeTicks == 50
\* (100, 100), (0, 0) and (639, 479)
ConstantInputs == {<<1000000, 1000000>>, <<0, 0>>, <<6390000, 4790000>>}

InitConverge ==
    /\ state = ClickState
    /\ wall = 0
    /\ perf = 0
    /\ trace = <<>>
    /\ \E raw \in ConstantInputs :
         obj \in {[kind |-> "CursorSmoother", sm |-> NoneXY,
                   raw |-> raw, n |-> 0, ret |-> NoReturn],
                  [kind |-> "FastSmoother", sm |-> FastSmoother(40, 15),
                   raw |-> raw, n |-> 0, ret |-> NoReturn]}
    /\ RestInit

\* one more tick with the same input, the fingers apart (normal mode)
FeedConstant ==
    /\ obj.n < ConvergeTicks
    /\ LET r == IF obj.kind = "FastSmoother"
                THEN FS_Update(obj.sm, obj.raw[1], obj.raw[2], 100)
                ELSE LET sm == Smooth(obj.sm, 40, 15, obj.raw[1], obj.raw[2], FALSE)
                     IN  [sm |-> sm,
                          ret |-> [x |-> sm.x, y |-> sm.y, set |-> TRUE, mode |-> "normal"]]
       IN  obj' = [obj EXCEPT !.sm = r.sm, !.ret = r.ret, !.n = @ + 1]
    /\ UNCHANGED <<state, wall, perf, trace, hs, cam, vloop, cloop, call_vars, bus, last>>

NextConverge == FeedConstant

SpecConverge == InitConverge /\ [][NextConverge]_vars

----------------------------------------------------------------------------
(* The command queue: process_voice_input puts, the vision loop drains and *)
(* starts a thread for each command                                        *)

MaxCommands == 3
Intents == {"TYPE", "OPEN_APP"}

\* process_voice_input puts a command; raises says that executing it will
\* raise an exception
VoiceEnqueues ==
    /\ Len(bus.enq) < MaxCommands
    /\ \E i \in Intents, r \in BOOLEAN :
         LET cmd == [id |-> Len(bus.enq) + 1, intent |-> i, raises |-> r]
         IN  bus' = [QueuePut(bus, cmd) EXCEPT !.enq = Append(@, cmd)]
    /\ UNCHANGED <<state, wall, perf, trace, hs, cam, vloop, cloop, call_vars, obj, last>>

FeederFlushes ==
    /\ bus.buffer # <<>>
    /\ bus' = QueueFeed(bus)
    /\ UNCHANGED <<state, wall, perf, trace, hs, cam, vloop, cloop, call_vars, obj, last>>

\* one round of "while not command_queue.empty()": get and dispatch.  A
\* get() on an empty pipe waits until the feeder has written an item.
LoopDrains ==
    /\ bus.running
    /\ \/ bus.pc = "drain" /\ ~QueueEmpty(bus)
       \/ bus.pc = "get" /\ bus.pipe # <<>>
    /\ IF bus.pipe = <<>>
       THEN bus' = [bus EXCEPT !.pc = "get"]
       ELSE LET g == QueueGet(bus)
            IN  bus' = Dispatch([g.bus EXCEPT !.pc = "drain"], g.item)
    /\ UNCHANGED <<state, wall, perf, trace, hs, cam, vloop, cloop, call_vars, obj, last>>

\* the queue is found empty: the loop goes on with the frame
LoopIterates ==
    /\ bus.running
    /\ bus.pc = "drain"
    /\ QueueEmpty(bus)
    /\ bus' = [bus EXCEPT !.pc = "frame"]
    /\ UNCHANGED <<state, wall, perf, trace, hs, cam, vloop, cloop, call_vars, obj, last>>

\* frame_count is odd: the frame is skipped
LoopSkips ==
    /\ bus.running
    /\ bus.pc = "frame"
    /\ bus.frame_count % 2 # 0
    /\ bus' = [bus EXCEPT !.frame_count = (@ + 1) % 2, !.pc = "drain"]
    /\ UNCHANGED <<state, wall, perf, trace, hs, cam, vloop, cloop, call_vars, obj, last>>

\* camera.read() yields no frame: continue
LoopNoFrame ==
    /\ bus.running
    /\ bus.pc = "frame"
    /\ bus.frame_count % 2 = 0
    /\ bus' = [bus EXCEPT !.pc = "drain"]
    /\ UNCHANGED <<state, wall, perf, trace, hs, cam, vloop, cloop, call_vars, obj, last>>

\* the frame is processed to the end of the iteration
LoopProcesses ==
    /\ bus.running
    /\ bus.pc = "frame"
    /\ bus.frame_count % 2 = 0
    /\ bus' = [bus EXCEPT !.frame_count = (@ + 1) % 2, !.pc = "drain"]
    /\ UNCHANGED <<state, wall, perf, trace, hs, cam, vloop, cloop, call_vars, obj, last>>

\* execute_command runs to its end, and whoever ran it goes on
ThreadRuns ==
    /\ \E cmd \in bus.threads :
         LET r == ExecuteCommand(cmd)
         IN  bus' = [bus EXCEPT !.threads = @ \ {cmd},
                                !.pc = IF @ = "exec" THEN "drain" ELSE @,
                                !.done = IF r = "done" THEN @ \cup {cmd.id} ELSE @,
                                !.failed = IF r # "done" THEN @ \cup {cmd.id} ELSE @]
    /\ UNCHANGED <<state, wall, perf, trace, hs, cam, vloop, cloop, call_vars, obj, last>>

\* a step of the vision loop
LoopStep == LoopDrains \/ LoopIterates \/ LoopSkips \/ LoopNoFrame \/ LoopProcesses

NextBus == VoiceEnqueues \/ FeederFlushes \/ LoopStep \/ ThreadRuns

SpecBus == Init /\ [][NextBus]_vars

\* the feeder thread, the vision loop and the command threads all get to run
SpecBusLive ==
    /\ Init /\ [][NextBus]_vars
    /\ WF_vars(FeederFlushes) /\ WF_vars(LoopStep) /\ WF_vars(ThreadRuns)

\* the feeder thread and the vision loop get to run; a command thread may
\* stay inside its command for as long as it likes
SpecBusLoop ==
    /\ Init /\ [][NextBus]_vars
    /\ WF_vars(FeederFlushes) /\ WF_vars(LoopStep)

----------------------------------------------------------------------------
(* The ClickHandler driven directly: any sequence of process_pinch and     *)
(* emergency_release calls, at non-decreasing times, on a fresh handler.   *)

InitClick ==
    /\ state = ClickState
    /\ wall \in {0, EpochOffset}
    /\ perf = 0
    /\ trace = <<>>
    /\ obj = NoObject
    /\ RestInit

CallProcessPinch(d, dt) ==
    /\ Len(trace) < MaxCalls
    /\ LET t == IF trace = <<>> THEN wall ELSE wall + dt
           r == ProcessPinch(state, d, t)
       IN  /\ wall' = t
           /\ state' = r.state
           /\ trace' = Append(trace, [op |-> "process_pinch", dist |-> d, t |-> t,
                                      pre |-> state, out |-> r.out])
    /\ UNCHANGED <<perf, hs, vision_vars, cloop, last, call_vars, unit_vars>>

CallEmergencyRelease ==
    /\ Len(trace) < MaxCalls
    /\ LET r == EmergencyRelease(state)
       IN  /\ state' = r.state
           /\ trace' = Append(trace, [op |-> "emergency_release", dist |-> 0, t |-> wall,
                                      pre |-> state, out |-> r.out])
    /\ UNCHANGED <<wall, perf, hs, vision_vars, cloop, last, call_vars, unit_vars>>

NextClick ==
    \/ \E d \in Dists, dt \in Deltas : CallProcessPinch(d, dt)
    \/ CallEmergencyRelease

SpecClick == InitClick /\ [][NextClick]_vars

----------------------------------------------------------------------------
(* Claims about the ClickHandler, checked under SpecClick                  *)

Has(seq, x) == \E n \in 1..Len(seq) : seq[n] = x
Count(seq, x) == Cardinality({n \in 1..Len(seq) : seq[n] = x})
IsPinch(i) == trace[i].op = "process_pinch"
IsPress(i) == IsPinch(i) /\ Has(trace[i].out, "left_down")
Idle(st) == ~st.is_left_down /\ ~st.is_right_down
UpgradeOut == <<"left_up", "right_down", "right_up">>
\* the calls i..i+Len(ds)-1 are process_pinch calls with the distances ds
Fed(i, ds) ==
    /\ i + Len(ds) - 1 <= Len(trace)
    /\ \A k \in 1..Len(ds) : IsPinch(i + k - 1) /\ trace[i + k - 1].dist = ds[k]

\* C2: is_left_down and is_right_down are never both true, after any
\* sequence of process_pinch and emergency_release calls.
C2_MutualExclusion == ~(state.is_left_down /\ state.is_right_down)

\* the right-click path has run: the left button was down before the call,
\* the right flag is set after it
C2_Witness ==
    /\ trace # <<>>
    /\ trace[Len(trace)].pre.is_left_down
    /\ trace[Len(trace)].out = UpgradeOut
    /\ state.is_right_down /\ ~state.is_left_down

\* the events the sequence [60, 25, 40, 55] must produce from call i on
HysteresisEvents(i) ==
    /\ trace[i].out = <<>>
    /\ trace[i + 1].out = <<"left_down">>
    /\ trace[i + 2].out = <<>>
    /\ trace[i + 3].out = <<"left_up">>

\* C6 (as amended): from Idle, with the debounce interval elapsed at the
\* tick with 25, the distances [60, 25, 40, 55] produce exactly one press (at
\* 25) and one release (at 55) and nothing at 60 or 40; process_pinch issues
\* a left button-down only on a tick with distance < 30, and a left button-up
\* only on a tick with distance > 50 or, as the first call of the right-click
\* upgrade, on a tick with distance < 30 held for more than 0.5 s.
C6_Hysteresis ==
    /\ \A i \in 1..Len(trace) :
         (/\ Fed(i, <<60, 25, 40, 55>>)
          /\ Idle(trace[i].pre)
          /\ trace[i + 1].t - trace[i + 1].pre.last_click_time > CLICK_DEBOUNCE)
         => HysteresisEvents(i)
    /\ \A i \in 1..Len(trace) : IsPinch(i) =>
         /\ Has(trace[i].out, "left_down") => trace[i].dist < PINCH_CLICK
         /\ Has(trace[i].out, "left_up") =>
              \/ trace[i].dist > PINCH_RELEASE
              \/ /\ trace[i].dist < PINCH_CLICK
                 /\ trace[i].out = UpgradeOut
                 /\ trace[i].t - trace[i].pre.pinch_start_time > RIGHT_CLICK_HOLD

\* the four calls were made from Idle and pressed and released once
C6_Witness ==
    /\ Fed(1, <<60, 25, 40, 55>>)
    /\ Idle(trace[1].pre)
    /\ HysteresisEvents(1)

\* C6 as stated: from Idle the sequence always presses once and releases
\* once, and a left button-up is issued only on a tick with distance > 50.
C6_AsStated ==
    /\ \A i \in 1..Len(trace) :
         (Fed(i, <<60, 25, 40, 55>>) /\ Idle(trace[i].pre)) => HysteresisEvents(i)
    /\ \A i \in 1..Len(trace) : IsPinch(i) =>
         /\ Has(trace[i].out, "left_down") => trace[i].dist < PINCH_CLICK
         /\ Has(trace[i].out, "left_up") => trace[i].dist > PINCH_RELEASE

\* the first three calls are [25, 60, 25] at T, T + 50 ms, T + 80 ms
DebounceExample ==
    /\ Fed(1, <<25, 60, 25>>)
    /\ trace[2].t = trace[1].t + 50
    /\ trace[3].t = trace[1].t + 80
\* the number of left button-downs the first three calls issued
ExamplePresses == Cardinality({i \in 1..3 : IsPress(i)})

\* C7 (as amended): a press fires only when more than 150 ms have passed
\* since last_click_time; two presses by process_pinch with no emergency
\* release between them are more than 150 ms apart; [25, 60, 25] at T,
\* T + 0.05, T + 0.08 on a fresh ClickHandler issues at most one left
\* button-down: exactly one when T > 0.15 (wall-clock timestamps), none when
\* T = 0, where the first attempt is itself within 150 ms of the initial
\* last_click_time of 0.0.
C7_Debounce ==
    /\ \A i \in 1..Len(trace) : IsPress(i) =>
         trace[i].t - trace[i].pre.last_click_time > CLICK_DEBOUNCE
    /\ \A i, j \in 1..Len(trace) :
         (i < j /\ IsPress(i) /\ IsPress(j) /\ \A k \in i..j : IsPinch(k))
         => trace[j].t - trace[i].t > CLICK_DEBOUNCE
    /\ DebounceExample =>
         ExamplePresses = (IF trace[1].t > CLICK_DEBOUNCE THEN 1 ELSE 0)

\* the second attempt of the example was refused by the debounce check
C7_Witness ==
    /\ DebounceExample
    /\ IsPress(1)
    /\ Idle(trace[3].pre) /\ trace[3].out = <<>>

\* C7 as stated: the example at t = 0, 0.05, 0.08 issues exactly one left
\* button-down, and a press fires only after more than 150 ms.
C7_AsStated ==
    /\ \A i \in 1..Len(trace) : IsPress(i) =>
         trace[i].t - trace[i].pre.last_click_time > CLICK_DEBOUNCE
    /\ (DebounceExample /\ trace[1].t = 0) => ExamplePresses = 1

\* calls i+1..j continue the pinch that call i started: all are
\* process_pinch calls with the distance below the click threshold
HeldFrom(i, j) ==
    /\ i < j /\ j <= Len(trace)
    /\ IsPinch(i) /\ trace[i].out = <<"left_down">>
    /\ \A k \in (i + 1)..j : IsPinch(k) /\ trace[k].dist < PINCH_CLICK
\* what call j of a pinch held since call i issues, when the upgrade is due
\* on the first tick whose hold time satisfies Due
HeldEvents(i, j, Due(_)) ==
    IF /\ Due(trace[j].t - trace[i].t)
       /\ \A k \in (i + 1)..(j - 1) : ~Due(trace[k].t - trace[i].t)
    THEN UpgradeOut ELSE <<>>
HoldExceeded(h) == h > RIGHT_CLICK_HOLD
HoldReached(h) == h >= RIGHT_CLICK_HOLD

\* C8 (as amended): a pinch held below the click threshold issues one left
\* button-down when it starts, then, on the first tick at which it has been
\* held for more than 0.5 s, one left button-up followed by one right-click
\* pulse (right-down, right-up), and no other button event on any tick
\* before or after that for as long as the pinch continues.
C8_RightClickUpgrade ==
    \A i, j \in 1..Len(trace) :
        HeldFrom(i, j) => trace[j].out = HeldEvents(i, j, HoldExceeded)

\* a pinch was pressed, upgraded, and went on without a further event
C8_Witness ==
    \E i, k, j \in 1..Len(trace) :
        /\ i < k /\ k < j /\ HeldFrom(i, j)
        /\ trace[k].out = UpgradeOut
        /\ trace[j].out = <<>>

\* C8 as stated: the upgrade happens once the pinch has been held for
\* >= 0.5 s.
C8_AsStated ==
    \A i, j \in 1..Len(trace) :
        HeldFrom(i, j) => trace[j].out = HeldEvents(i, j, HoldReached)

----------------------------------------------------------------------------
(* Claims about vision_process_loop and cursor_thread, checked under Spec  *)
(* (C3 under SpecLive)                                                     *)

\* C1: immediately after a VisionLoop tick on which no hand is detected,
\* is_left_down and is_right_down are both false, and a left button-up has
\* been issued if the left button was down, whatever the timers hold.
C1_NoStuckButton ==
    last.op = "no_hand" =>
        /\ ~state.is_left_down /\ ~state.is_right_down
        /\ last.pre.is_left_down => Has(last.out, "left_up")

\* a tick without a hand found the left button down and released it
C1_Witness ==
    /\ last.op = "no_hand"
    /\ last.pre.is_left_down
    /\ last.out = <<"left_up">>
    /\ ~state.is_left_down

\* C3 as stated: if VisionLoop stops executing ticks while the left button
\* is held down, then once the 100 ms staleness timeout has expired a left
\* button-up is eventually issued (is_left_down, which is cleared only
\* where a left button-up is issued, becomes false).
C3_AsStated ==
    []((/\ vloop.stopped
        /\ state.is_left_down
        /\ perf - hs.last_update > STALE_TIMEOUT)
       => <>(~state.is_left_down))

\* C4: a get_snapshot call made more than 100 ms after the last update
\* returns detected = false, cursor_active = false and mode = Idle,
\* whatever flags the last update stored.
C4_Staleness ==
    (last.op = "cursor" /\ last.stale) =>
        /\ ~last.snap.detected
        /\ ~last.snap.cursor_active
        /\ last.snap.mode = "idle"

\* a stale read found all three flags set and returned them cleared
C4_Witness ==
    /\ last.op = "cursor" /\ last.stale
    /\ last.stored.hand_detected /\ last.stored.cursor_active
    /\ last.stored.mode = "cursor"
    /\ ~last.snap.detected /\ ~last.snap.cursor_active /\ last.snap.mode = "idle"

\* C5 as stated: an iteration on which the camera frame is unavailable
\* calls emergency_release, leaves no button down, and the loop goes on.
C5_AsStated ==
    last.op = "no_frame" =>
        /\ Has(last.did, "emergency_release")
        /\ ~state.is_left_down /\ ~state.is_right_down
        /\ ~vloop.stopped

\* the stored fields cursor_thread never writes
KeptByCursor(h) ==
    <<h.index_x, h.index_y, h.thumb_x, h.thumb_y, h.pinch_dist,
      h.mode_text, h.last_update, h.vision_fps>>
Flags(h) == <<h.hand_detected, h.cursor_active, h.mode>>

----------------------------------------------------------------------------
(* Claims about HandState under the interleaving of the two loops          *)

\* the position and pinch fields of a dict or of the arguments of a call
Pos(r) == <<r.index_x, r.index_y, r.thumb_x, r.thumb_y, r.pinch_dist>>

\* what __init__ and the update calls publish
Published == {Pos(HandState(0))} \cup {Pos(a) : a \in UpdateArgs}

\* C9: under any interleaving of update and get_snapshot, the position and
\* pinch fields of every dict get_snapshot returns all come from one single
\* publication (one update call, or the construction when no update has
\* completed yet): never index_x of one update with index_y or pinch_dist of
\* another.
C9_SnapshotAtomicity == cthr.returned => Pos(cthr.ret) \in Published

\* get_snapshot was called while an update had written some of its fields,
\* and returned the fields of that update while the next update is half done
C9_Witness ==
    /\ cthr.returned /\ cthr.overlap
    /\ cthr.ret.index_x = 200 /\ cthr.ret.pinch_dist = 55
    /\ vthr.op = "update" /\ vthr.pc = "body" /\ vthr.k = 3
    /\ hs.index_x = 100 /\ hs.thumb_x = 220

----------------------------------------------------------------------------
(* Claims about HandState in the two loops                                 *)

\* C11: last_update never decreases, whichever of update, clear and
\* get_snapshot the loops call.
C11_LastUpdateMonotone == [][hs'.last_update >= hs.last_update]_vars

\* an update stored a later time stamp, and a clear after it kept it
C11_Witness ==
    /\ last.op = "no_hand" /\ Has(last.did, "clear")
    /\ hs.last_update > 0 /\ ~hs.hand_detected

----------------------------------------------------------------------------
(* Claims about GestureRecognizer                                          *)

\* the rules of gesture classification, in their order of priority
Rule(i, f) ==
    CASE i = 1 -> f.index /\ ~f.middle /\ ~f.ring
      [] i = 2 -> f.index /\ f.middle /\ f.ring /\ ~f.pinky
      [] i = 3 -> f.thumb /\ f.pinky /\ ~f.index
      [] i = 4 -> ~f.index /\ ~f.middle /\ ~f.ring
      [] i = 5 -> TRUE
RuleMode == <<"cursor", "scrolling", "volume", "media", "idle">>
FirstMatch(f) == CHOOSE i \in 1..5 : Rule(i, f) /\ \A j \in 1..(i - 1) : ~Rule(j, f)

\* C12: for each of the 32 finger combinations recognize_mode returns the
\* mode of the first matching rule (Cursor, Scrolling, Volume, MediaControl,
\* otherwise Idle), whatever the pinch distance and whatever was classified
\* on the frame before; a hand matching rules 3 and 4 is Volume.
C12_Classification ==
    obj.op = "recognize_mode" =>
        /\ obj.mode = RuleMode[FirstMatch(obj.fingers)]
        /\ (Rule(3, obj.fingers) /\ Rule(4, obj.fingers)) => obj.mode = "volume"

\* thumb and pinky out, the other fingers down (rules 3 and 4 both match),
\* classified after a frame of another mode
C12_Witness ==
    /\ obj.op = "recognize_mode"
    /\ Rule(3, obj.fingers) /\ Rule(4, obj.fingers)
    /\ obj.mode = "volume" /\ obj.before = "cursor"

\* the gesture modes of the specification
FiveModes == {"idle", "cursor", "scrolling", "volume", "media"}

\* C13: the mode stored in HandState, and the mode of every snapshot, is one
\* of Idle, Cursor, Scrolling, Volume, MediaControl in every reachable state
\* (never Clicking, Dragging or RightClicking).
C13_ModeClosed ==
    /\ hs.mode \in FiveModes
    /\ last.snap.mode \in FiveModes

\* the shaka was stored as Volume and a snapshot returned it
C13_Witness ==
    /\ last.op = "cursor" /\ last.snap.mode = "volume" /\ last.snap.detected
    /\ hs.mode = "volume" /\ hs.pinch_dist = 40

----------------------------------------------------------------------------
(* Claims about cursor_thread                                              *)

\* C14: an iteration of cursor_thread issues a cursor move, or changes its
\* smoother, only if the snapshot it read has detected and cursor_active both
\* true; on every other iteration it issues no OS call and the smoother is
\* as before.
C14_MoveOnlyIfActive ==
    [][last'.op = "cursor" =>
          \/ last'.snap.detected /\ last'.snap.cursor_active
          \/ last'.out = <<>> /\ cloop'.smoother = cloop.smoother]_vars

\* an iteration on stale state: the stored flags are both true, the snapshot
\* says otherwise, nothing is issued and the smoother keeps its position
C14_Witness ==
    /\ last.op = "cursor" /\ last.stale
    /\ last.stored.hand_detected /\ last.stored.cursor_active
    /\ last.out = <<>> /\ cloop.smoother.set

\* C15 as stated: whenever the mode is seen to have left Cursor (another
\* mode, hand lost, or stale state), the history of the position smoother is
\* cleared, so that the first position after Cursor mode resumes is the
\* first raw position.
C15_AsStated ==
    (last.op = "cursor" /\ ~CursorActive(last.snap)) => ~cloop.smoother.set

----------------------------------------------------------------------------
(* Claims about the smoothers                                              *)

\* call i is the first update since construction or since the latest reset
FirstUpdate(i) ==
    /\ trace[i].op = "update"
    /\ \E j \in 0..(i - 1) :
         /\ j > 0 => trace[j].op = "reset"
         /\ \A k \in (j + 1)..(i - 1) : trace[k].op # "update"

\* C16 as stated: the first update after construction or after reset()
\* returns the raw input position exactly, for CursorSmoother.smooth and
\* FastSmoother.update, in normal and in sniper mode.
C16_AsStated ==
    \A i \in 1..Len(trace) :
        FirstUpdate(i) =>
            /\ trace[i].ret.set
            /\ <<trace[i].ret.x, trace[i].ret.y>> = trace[i].raw

\* a and b are within 1e-3 pixel of each other
Within(a, b) == a - b <= 10 /\ b - a <= 10

\* C17: a freshly constructed exponential smoother with alpha_normal = 0.4,
\* fed the constant input (100, 100) for 50 ticks, returns a position within
\* 1e-3 of (100, 100); the constant input is a fixed point of the filter
\* from the first tick on.
C17_Convergence ==
    obj.n >= 1 =>
        /\ obj.ret.set
        /\ Within(obj.ret.x, obj.raw[1]) /\ Within(obj.ret.y, obj.raw[2])

\* tick 50 of the input (100, 100)
C17_Witness ==
    /\ obj.n = ConvergeTicks /\ obj.raw = <<1000000, 1000000>>
    /\ obj.kind = "CursorSmoother"
    /\ obj.ret.x = 1000000 /\ obj.ret.y = 1000000 /\ obj.sm.set

\* the position a FastSmoother holds: x, y, and whether they are not None
Held(sm) == <<sm.x, sm.y, sm.set>>

\* calls i+1 .. j are all updates
UpdatesOnly(i, j) == \A k \in (i + 1)..j : trace[k].op = "update"

\* C18: after trigger_click_freeze(N), each of the next N update calls
\* returns the position the filter holds (the last one emitted since
\* construction or reset) whatever the raw input, leaves that position
\* unchanged and takes one off the freeze counter; update N+1 filters
\* normally again, from the held position.
C18_ClickFreeze ==
    \A i \in 1..Len(trace) : \A j \in (i + 1)..Len(trace) :
        (trace[i].op = "freeze" /\ UpdatesOnly(i, j)) =>
            LET N    == trace[i].frames
                held == trace[i].post
                c    == trace[j]
            IN  /\ j - i <= N =>
                     /\ c.ret.mode = "frozen"
                     /\ <<c.ret.x, c.ret.y, c.ret.set>> = Held(held)
                     /\ Held(c.post) = Held(held)
                     /\ c.post.freeze_frames = c.pre.freeze_frames - 1
                     /\ c.post.freeze_frames = N - (j - i)
                /\ j - i = N + 1 =>
                     /\ c.ret.mode # "frozen"
                     /\ c.post.freeze_frames = 0
                     /\ [sm |-> c.post, ret |-> c.ret]
                          = FS_Update([held EXCEPT !.freeze_frames = 0],
                                      c.raw[1], c.raw[2], c.dist)

\* (100, 100) is emitted, the filter is frozen for 2 updates, and three
\* updates with (400, 300) follow: two return (100, 100), the third moves
C18_Witness ==
    /\ Len(trace) = 5
    /\ trace[1].op = "update" /\ trace[1].raw = <<100, 100>>
    /\ trace[2].op = "freeze" /\ trace[2].frames = 2
    /\ UpdatesOnly(2, 5)
    /\ \A k \in 3..5 : trace[k].raw = <<400, 300>> /\ trace[k].dist = 100
    /\ trace[3].ret.mode = "frozen" /\ trace[3].ret.x = 100
    /\ trace[4].ret.mode = "frozen" /\ trace[4].ret.y = 100
    /\ trace[5].ret.mode = "normal" /\ trace[5].ret.x = 205 /\ trace[5].ret.y = 170

----------------------------------------------------------------------------
(* Claims about the command queue                                          *)

IsPrefix(a, b) == Len(a) <= Len(b) /\ a = SubSeq(b, 1, Len(a))

\* C19: the commands are dequeued and dispatched by the vision loop in the
\* order in which process_voice_input enqueued them, however enqueues and
\* drain rounds interleave.
C19_Fifo == IsPrefix(bus.deq, bus.enq)

\* two commands were dispatched while the third was enqueued but not yet
\* visible to the loop, which had found the queue empty in between
C19_Witness ==
    /\ Len(bus.enq) = 3 /\ Len(bus.deq) = 2 /\ Len(bus.buffer) = 1
    /\ bus.deq[1].id = 1 /\ bus.deq[2].id = 2
    /\ bus.deq[1].intent # bus.deq[2].intent
    /\ bus.pc = "frame"

\* C20: a command whose execution raises stops neither the vision loop nor
\* the dispatching: the loop keeps running, and every command enqueued -- the
\* one right behind a raising command in particular -- is dequeued and
\* executed in the end.
C20_Isolation ==
    /\ [](bus.failed # {} => bus.running)
    /\ \A i \in 1..MaxCommands :
         (Len(bus.enq) >= i) ~> (i \in bus.done \cup bus.failed)

\* command 1 raised, and command 2, enqueued right behind it, was executed
C20_Witness ==
    /\ Len(bus.enq) >= 2 /\ bus.enq[1].raises /\ ~bus.enq[2].raises
    /\ 1 \in bus.failed /\ 2 \in bus.done /\ bus.running

\* C21: the vision loop is never inside a command: a dequeued command runs on
\* a thread of its own, and with commands that never return the loop still
\* comes to the frame part of its iteration again and again.
C21_LoopNeverRunsCommands ==
    /\ [](bus.pc # "exec")
    /\ []<>(bus.pc = "frame")
    /\ [](bus.threads # {} => <>(bus.threads # {} /\ bus.pc = "frame") \/ <>(bus.threads = {}))

\* two commands are still running on their threads, and the loop has gone on
\* to the frame of a later iteration
C21_Witness ==
    /\ Cardinality(bus.threads) = 2 /\ bus.done = {} /\ bus.failed = {}
    /\ bus.pc = "frame" /\ bus.frame_count = 1

\* C22: the drain step never waits: the loop is never inside a get() on an
\* empty pipe, whatever the producer and the feeder thread do meanwhile, and
\* on an empty queue it changes nothing and goes on with the frame.
C22_DrainNeverBlocks ==
    /\ [](bus.pc # "get")
    /\ [][(bus.pc = "drain" /\ QueueEmpty(bus) /\ bus'.pc # "drain")
             => bus' = [bus EXCEPT !.pc = "frame"]]_vars

\* the loop found the queue empty and went on while a command that was put
\* already had not reached the pipe
C22_Witness ==
    /\ bus.pc = "frame" /\ bus.pipe = <<>> /\ bus.buffer # <<>>
    /\ bus.deq # <<>>

\* the ids of the commands the loop has handed to a thread
Dispatched == {bus.deq[k].id : k \in 1..Len(bus.deq)}

\* C29: every command enqueued is dequeued by the vision loop in the end,
\* also on iterations without a frame; no command is dequeued twice, and each
\* dequeued command is on one thread or has finished on it.
C29_EveryCommandDispatchedOnce ==
    /\ \A i \in 1..MaxCommands : (Len(bus.enq) >= i) ~> (i \in Dispatched)
    /\ [](Cardinality(Dispatched) = Len(bus.deq))
    /\ [](\A i \in Dispatched :
             Cardinality({c \in bus.threads : c.id = i}) + Cardinality({i} \cap bus.done)
               + Cardinality({i} \cap bus.failed) = 1)

\* every command was enqueued and dequeued, one has finished and the others
\* are on their threads, and the loop is in an iteration with no frame counted
C29_Witness ==
    /\ Len(bus.enq) = MaxCommands /\ Dispatched = 1..MaxCommands
    /\ Len(bus.deq) = MaxCommands
    /\ Cardinality(bus.threads) = MaxCommands - 1
    /\ bus.pc = "frame" /\ bus.frame_count = 0

----------------------------------------------------------------------------
(* Claims about the dead band of process_pinch                            *)

\* the ClickState the i-th call left behind
StateAfter(i) == IF i < Len(trace) THEN trace[i + 1].pre ELSE state

\* the i-th call is a process_pinch with a distance between the thresholds
InDeadBand(i) ==
    /\ trace[i].op = "process_pinch"
    /\ PINCH_CLICK <= trace[i].dist /\ trace[i].dist <= PINCH_RELEASE

\* C28: a process_pinch call with 30 <= distance <= 50 issues no mouse call and
\* leaves every field of ClickState as it was, whatever the state and however
\* long ago the pinch started; a button that is down stays down.
C28_DeadBand ==
    \A i \in 1..Len(trace) : InDeadBand(i) =>
        /\ trace[i].out = <<>>
        /\ StateAfter(i) = trace[i].pre

\* the left button went down on the first call and was still down, with
\* nothing issued, after two calls in the dead band, the second one more than
\* RIGHT_CLICK_HOLD after the press
C28_Witness ==
    /\ Len(trace) >= 3
    /\ trace[1].out = <<"left_down">>
    /\ InDeadBand(2) /\ InDeadBand(3)
    /\ trace[3].dist = PINCH_CLICK
    /\ trace[3].t - trace[3].pre.pinch_start_time > RIGHT_CLICK_HOLD
    /\ trace[3].pre.is_left_down /\ StateAfter(3).is_left_down
    /\ trace[3].out = <<>>

----------------------------------------------------------------------------
(* cursor_thread: the pacing of the loop (times in microseconds)           *)

TARGET_FPS == 120

\* frame_time = 1.0 / CursorConfig.TARGET_FPS
FrameTime == 1000000 \div TARGET_FPS

MaxTicks == 4

\* what the body of a tick takes: well under the frame time, the frame time
\* to the microsecond, just over it, and far over it
WorkTimes == {1000, FrameTime, FrameTime + 1, 20000}

\* by how much time.sleep oversleeps
Oversleeps == {0, 500}

\* the pacing without the test of the sign
SleepTime_Unguarded(frame_time, elapsed) == frame_time - elapsed

\* sleep_time = frame_time - elapsed; if sleep_time > 0: time.sleep(sleep_time)
\* -- the time the loop asks to sleep, 0 when it does not call sleep
SleepTime(frame_time, elapsed) ==
    LET sleep_time == frame_time - elapsed
    IN  IF sleep_time > 0 THEN sleep_time ELSE 0

InitPacing ==
    /\ state = ClickState
    /\ wall = 0
    /\ perf = 0
    /\ trace = <<>>
    /\ obj = [kind |-> "cursor_thread", pc |-> "body", tick |-> 1,
              loop_start |-> 0, clock |-> 0]
    /\ RestInit

\* loop_start = perf_counter(), and the body of the tick up to the FPS tracking
CursorBody(d) ==
    /\ obj.pc = "body"
    /\ obj.tick <= MaxTicks
    /\ obj' = [obj EXCEPT !.pc = "pace", !.clock = obj.loop_start + d]
    /\ UNCHANGED <<state, wall, perf, trace, hs, cam, vloop, cloop, call_vars, bus, last>>

\* the end of the tick: elapsed, the sleep, and the next round of "while True"
CursorPaces(over) ==
    /\ obj.pc = "pace"
    /\ LET elapsed == obj.clock - obj.loop_start
           slept   == SleepTime(FrameTime, elapsed)
           woke    == obj.clock + slept + (IF slept > 0 THEN over ELSE 0)
       IN  /\ trace' = Append(trace, [tick |-> obj.tick, start |-> obj.loop_start,
                                      elapsed |-> elapsed, slept |-> slept])
           /\ obj' = [obj EXCEPT !.pc = "body", !.tick = @ + 1,
                                 !.loop_start = woke, !.clock = woke]
    /\ UNCHANGED <<state, wall, perf, hs, cam, vloop, cloop, call_vars, bus, last>>

NextPacing ==
    \/ \E d \in WorkTimes : CursorBody(d)
    \/ \E over \in Oversleeps : CursorPaces(over)

SpecPacing == InitPacing /\ [][NextPacing]_vars

\* C27: at the end of every tick the cursor loop sleeps max(0, frame time -
\* elapsed): never a negative time, nothing after a tick that took the frame
\* time or longer, and the next tick -- one tick, the next in number -- starts
\* when the sleep is over, however long the tick before it took.
C27_Pacing ==
    \A i \in 1..Len(trace) :
        /\ trace[i].slept >= 0
        /\ trace[i].elapsed < FrameTime => trace[i].slept = FrameTime - trace[i].elapsed
        /\ trace[i].elapsed >= FrameTime => trace[i].slept = 0
        /\ trace[i].tick = i
        /\ i < Len(trace) =>
             /\ trace[i + 1].start >= trace[i].start + trace[i].elapsed + trace[i].slept
             /\ trace[i].slept = 0 =>
                  trace[i + 1].start = trace[i].start + trace[i].elapsed

\* a tick that overran was followed at once by a tick that did not, which
\* slept for the rest of its frame time
C27_Witness ==
    /\ Len(trace) >= 3
    /\ trace[1].elapsed = 1000 /\ trace[1].slept = FrameTime - 1000
    /\ trace[2].elapsed = 20000 /\ trace[2].slept = 0
    /\ trace[3].start = trace[2].start + 20000
    /\ trace[3].elapsed = FrameTime /\ trace[3].slept = 0

----------------------------------------------------------------------------
(* SharedState: the context cell.  A string is a sequence of code points,  *)
(* the cell an array of bytes.                                             *)

\* multiprocessing.Array(c_char, 50)
CONTEXT_SIZE == 50

\* context_str[:49]
CONTEXT_CHARS == 49

MaxContextCalls == 4

\* str.encode('utf-8') of one code point below U+0800
Utf8(cp) == IF cp < 128 THEN <<cp>> ELSE <<192 + (cp \div 64), 128 + (cp % 64)>>

RECURSIVE Encode(_)
\* str.encode('utf-8')
Encode(str) == IF str = <<>> THEN <<>> ELSE Utf8(Head(str)) \o Encode(Tail(str))

RECURSIVE Decode(_)
\* bytes.decode('utf-8'); -1 stands for the UnicodeDecodeError
Decode(b) ==
    IF b = <<>> THEN <<>>
    ELSE IF b[1] < 128 THEN <<b[1]>> \o Decode(Tail(b))
    ELSE IF /\ b[1] >= 192 /\ b[1] < 224
            /\ Len(b) >= 2 /\ b[2] >= 128 /\ b[2] < 192
         THEN <<(b[1] - 192) * 64 + (b[2] - 128)>> \o Decode(SubSeq(b, 3, Len(b)))
    ELSE <<-1>>

\* str[:n]
Take(str, n) == SubSeq(str, 1, IF Len(str) < n THEN Len(str) ELSE n)

\* the value of a c_char array: the bytes before the first NUL
ArrayValue(raw) ==
    LET nul == {i \in 1..Len(raw) : raw[i] = 0}
    IN  IF nul = {} THEN raw
        ELSE SubSeq(raw, 1, (CHOOSE i \in nul : \A j \in nul : i <= j) - 1)

\* assigning the value of a c_char array: a byte string longer than the
\* array raises ValueError; a shorter one is copied with a NUL behind it
ArraySetValue(raw, b) ==
    IF Len(b) > Len(raw) THEN [raw |-> raw, raised |-> TRUE]
    ELSE [raw |-> [i \in 1..Len(raw) |->
                     IF i <= Len(b) THEN b[i] ELSE IF i = Len(b) + 1 THEN 0 ELSE raw[i]],
          raised |-> FALSE]

\* SharedState.__init__: the array is zeroed
SharedState == [kind |-> "SharedState", active_context |-> [i \in 1..CONTEXT_SIZE |-> 0]]

\* SharedState.get_context
GetContext(sh) == Decode(ArrayValue(sh.active_context))

\* SharedState.set_context
SetContext(sh, context_str) ==
    LET r == ArraySetValue(sh.active_context, Encode(Take(context_str, CONTEXT_CHARS)))
    IN  [sh |-> [sh EXCEPT !.active_context = r.raw], raised |-> r.raised]

\* n times the code point cp
Rep(cp, n) == [i \in 1..n |-> cp]

\* "desktop", as context_monitor_thread sets it
Desktop == <<100, 101, 115, 107, 116, 111, 112>>

\* the arguments of set_context: the empty string, "desktop", 49 and 60 times
\* "a", 25 and 30 times U+00E9 (two bytes each), and "a\0b"
ContextStrings ==
    {<<>>, Desktop, Rep(97, 49), Rep(97, 60), Rep(233, 25), Rep(233, 30), <<97, 0, 98>>}

InitContext ==
    /\ state = ClickState
    /\ wall = 0
    /\ perf = 0
    /\ trace = <<>>
    /\ obj = SharedState
    /\ RestInit

CallSetContext(str) ==
    /\ Len(trace) < MaxContextCalls
    /\ LET r == SetContext(obj, str)
       IN  /\ obj' = r.sh
           /\ trace' = Append(trace, [op |-> "set_context", arg |-> str,
                                      raised |-> r.raised, ret |-> <<>>])
    /\ UNCHANGED <<state, wall, perf, hs, cam, vloop, cloop, call_vars, bus, last>>

CallGetContext ==
    /\ Len(trace) < MaxContextCalls
    /\ trace' = Append(trace, [op |-> "get_context", arg |-> <<>>,
                               raised |-> FALSE, ret |-> GetContext(obj)])
    /\ UNCHANGED <<state, wall, perf, hs, cam, vloop, cloop, call_vars, obj, bus, last>>

NextContext ==
    \/ \E str \in ContextStrings : CallSetContext(str)
    \/ CallGetContext

SpecContext == InitContext /\ [][NextContext]_vars

\* the calls of set_context before the i-th call
SetsBefore(i) == {j \in 1..(i - 1) : trace[j].op = "set_context"}

\* the argument of the last set_context before the i-th call, the empty
\* string if there is none
LastSet(i) ==
    IF SetsBefore(i) = {} THEN <<>>
    ELSE trace[CHOOSE j \in SetsBefore(i) : \A k \in SetsBefore(i) : k <= j].arg

\* a string that UTF-8 encodes to one byte per character, none of them NUL
Ascii(str) == \A i \in 1..Len(str) : str[i] > 0 /\ str[i] < 128

\* C23 as stated: get_context returns the first 49 characters of the argument
\* of the most recent set_context, the empty string before any, and no
\* set_context fails.
C23_AsStated ==
    \A i \in 1..Len(trace) :
        /\ trace[i].op = "get_context" => trace[i].ret = Take(LastSet(i), CONTEXT_CHARS)
        /\ ~trace[i].raised

\* what holds: last-write-wins for arguments of ASCII characters other than NUL
ContextLastWriteWins ==
    \A i \in 1..Len(trace) :
        (trace[i].op = "get_context" /\ \A j \in SetsBefore(i) : Ascii(trace[j].arg))
        => trace[i].ret = Take(LastSet(i), CONTEXT_CHARS)

----------------------------------------------------------------------------
(* parse_intent and execute_command: from the words heard to the action    *)

\* the words parse_intent and its branches look for in a command
Keywords ==
    {"play", "search", "open", "close", "type", "turn off", "pc", "shutdown",
     "call", "scroll", "down", "up", " on "}

\* a command after the wake word: the keywords it contains, and whether it
\* has other text as well ("shutdown" contains "down")
Commands ==
    {c \in [words : SUBSET Keywords, other : BOOLEAN] :
        "shutdown" \in c.words => "down" \in c.words}

\* clean_cmd.replace(keyword, "").strip(): "text" if something is left
Remainder(c, keyword) ==
    IF c.other \/ c.words \ {keyword} # {} THEN "text" ELSE ""

\* parse_intent: the intent and the payload ("dict" for a dictionary)
ParseIntent(c) ==
    IF "play" \in c.words THEN [intent |-> "PLAY_MEDIA", payload |-> "dict"]
    ELSE IF "search" \in c.words THEN [intent |-> "SEARCH_WEB", payload |-> "dict"]
    ELSE IF "open" \in c.words THEN [intent |-> "OPEN_APP", payload |-> Remainder(c, "open")]
    ELSE IF "close" \in c.words THEN [intent |-> "CLOSE_APP", payload |-> Remainder(c, "close")]
    ELSE IF "type" \in c.words THEN [intent |-> "TYPE", payload |-> Remainder(c, "type")]
    ELSE IF "turn off" \in c.words /\ "pc" \in c.words
         THEN [intent |-> "SYSTEM_SHUTDOWN", payload |-> "pc"]
    ELSE IF "shutdown" \in c.words THEN [intent |-> "SYSTEM_SHUTDOWN", payload |-> "pc"]
    ELSE IF "call" \in c.words THEN [intent |-> "CALL", payload |-> Remainder(c, "call")]
    ELSE IF "scroll" \in c.words
         THEN [intent |-> "SCROLL",
               payload |-> IF "down" \in c.words THEN "down"
                           ELSE IF "up" \in c.words THEN "up" ELSE "down"]
    ELSE [intent |-> "None", payload |-> "None"]

\* process_voice_input, "if intent and payload": the command is put
Enqueued(r) == r.intent # "None" /\ r.payload # "None" /\ r.payload # ""

\* execute_command: the action the branch of the intent calls, "none" for an
\* intent that has no branch
IntentAction(intent) ==
    IF intent = "PLAY_MEDIA" THEN "play_music"
    ELSE IF intent = "SEARCH_WEB" THEN "search_web"
    ELSE IF intent = "OPEN_APP" THEN "open_app"
    ELSE IF intent = "CLOSE_APP" THEN "close_app"
    ELSE IF intent = "TYPE" THEN "pyautogui.write"
    ELSE IF intent = "SCROLL" THEN "pyautogui.scroll"
    ELSE IF intent = "SYSTEM_SHUTDOWN" THEN "os.system"
    ELSE "none"

InitVoice ==
    /\ state = ClickState
    /\ wall = 0
    /\ perf = 0
    /\ trace = <<>>
    /\ obj \in {[kind |-> "command", pc |-> "heard", clean_cmd |-> c,
                 cmd |-> [intent |-> "None", payload |-> "None"]] : c \in Commands}
    /\ RestInit

\* process_voice_input from "3. Parse Intent" on
ProcessVoiceInput ==
    /\ obj.pc = "heard"
    /\ LET r == ParseIntent(obj.clean_cmd)
       IN  /\ obj' = [obj EXCEPT !.pc = IF Enqueued(r) THEN "queued" ELSE "ignored",
                                 !.cmd = r]
           /\ trace' = Append(trace, [op |-> "process_voice_input", intent |-> r.intent,
                                      action |-> IF Enqueued(r) THEN "put" ELSE "none"])
    /\ UNCHANGED <<state, wall, perf, hs, cam, vloop, cloop, call_vars, bus, last>>

\* the command is dequeued, and execute_command runs on its thread
CallExecuteCommand ==
    /\ obj.pc = "queued"
    /\ obj' = [obj EXCEPT !.pc = "executed"]
    /\ trace' = Append(trace, [op |-> "execute_command", intent |-> obj.cmd.intent,
                               action |-> IntentAction(obj.cmd.intent)])
    /\ UNCHANGED <<state, wall, perf, hs, cam, vloop, cloop, call_vars, bus, last>>

NextVoice == ProcessVoiceInput \/ CallExecuteCommand

SpecVoice == InitVoice /\ [][NextVoice]_vars

\* the intents of the vocabulary
Vocabulary ==
    {"OPEN_APP", "CLOSE_APP", "PLAY_MEDIA", "SEARCH_WEB", "TYPE", "SCROLL",
     "SYSTEM_SHUTDOWN", "CALL"}

\* C30 as stated: execute_command invokes an action for every dequeued
\* command whose intent is in the vocabulary.
C30_AsStated ==
    \A i \in 1..Len(trace) :
        (trace[i].op = "execute_command" /\ trace[i].intent \in Vocabulary)
        => trace[i].action # "none"

\* what holds: every intent parse_intent produces is in the vocabulary, and
\* every one of them but CALL has its action invoked
VocabularyButCall ==
    \A i \in 1..Len(trace) :
        /\ trace[i].intent \in Vocabulary \cup {"None"}
        /\ (trace[i].op = "execute_command" /\ trace[i].intent # "CALL")
           => trace[i].action # "none"

----------------------------------------------------------------------------
(* main: startup, the two processes and their loops, shutdown              *)

\* the loops that run until the system stops
Loops == {"VisionLoop", "CursorLoop", "ContextMonitor", "VoiceLoop"}

\* how many rounds begun with system_active false are counted
MaxLate == 2

\* everything but the system under main
sys_frame == <<state, wall, perf, trace, hs, cam, vloop, cloop, call_vars, bus, last>>

\* the machine main is started on: is the model there, a camera, a microphone
Machines == [model : BOOLEAN, camera : BOOLEAN, mic : BOOLEAN]

\* main before verify_setup: no process object is bound (p_voice, p_vision),
\* no process and no thread runs, nothing was reported; late counts, per
\* loop, the rounds begun with system_active false
InitSystem ==
    /\ state = ClickState
    /\ wall = 0
    /\ perf = 0
    /\ trace = <<>>
    /\ obj \in {[kind |-> "system", env |-> e, system_active |-> TRUE, main |-> "verify",
                 p_voice |-> "unbound", p_vision |-> "unbound",
                 voice |-> "none", vision |-> "none", cursor |-> "none",
                 context |-> "none", reported |-> {}, esc |-> FALSE,
                 late |-> [l \in Loops |-> 0]] : e \in Machines}
    /\ RestInit

\* "while True"
WhileTrue(active) == TRUE

\* "while shared_state.system_active.value"
WhileActive(active) == active

\* one more round begun by loop l, late if system_active is false
Round(o, l) ==
    [o EXCEPT !.late[l] = IF ~o.system_active /\ @ < MaxLate THEN @ + 1 ELSE @]

\* the process has ended: its daemon threads end with it
VisionEnded(o, how) ==
    [o EXCEPT !.vision = how, !.p_vision = "dead",
              !.cursor = IF @ = "none" THEN @ ELSE "dead",
              !.context = IF @ = "none" THEN @ ELSE "dead"]

VoiceEnded(o, how) == [o EXCEPT !.voice = how, !.p_voice = "dead"]

\* verify_setup: validate_config and the test of the English model
VerifySetup ==
    /\ obj.main = "verify"
    /\ obj' = IF obj.env.model THEN [obj EXCEPT !.main = "create_voice"]
              ELSE [obj EXCEPT !.main = "exited", !.reported = @ \cup {"model"}]
    /\ UNCHANGED sys_frame

\* p_voice = multiprocessing.Process(...)
CreateVoice ==
    /\ obj.main = "create_voice"
    /\ obj' = [obj EXCEPT !.main = "start_voice", !.p_voice = "created"]
    /\ UNCHANGED sys_frame

\* p_voice.start()
StartVoice ==
    /\ obj.main = "start_voice"
    /\ obj' = [obj EXCEPT !.main = "create_vision", !.p_voice = "alive", !.voice = "init"]
    /\ UNCHANGED sys_frame

\* p_vision = multiprocessing.Process(...)
CreateVision ==
    /\ obj.main = "create_vision"
    /\ obj' = [obj EXCEPT !.main = "start_vision", !.p_vision = "created"]
    /\ UNCHANGED sys_frame

\* p_vision.start()
StartVision ==
    /\ obj.main = "start_vision"
    /\ obj' = [obj EXCEPT !.main = "monitor", !.p_vision = "alive", !.vision = "init"]
    /\ UNCHANGED sys_frame

\* the monitor loop of main: it ends when system_active is false or the
\* vision process is not alive
Monitor ==
    /\ obj.main = "monitor"
    /\ ~obj.system_active \/ obj.p_vision # "alive"
    /\ obj' = [obj EXCEPT !.main = "finally", !.system_active = FALSE]
    /\ UNCHANGED sys_frame

\* KeyboardInterrupt anywhere in the try block
KeyboardInterrupt ==
    /\ obj.main \in {"create_voice", "start_voice", "create_vision", "start_vision",
                     "monitor"}
    /\ obj' = [obj EXCEPT !.main = "finally", !.system_active = FALSE]
    /\ UNCHANGED sys_frame

\* finally: state.system_active.value = False
Finally ==
    /\ obj.main = "finally"
    /\ obj' = [obj EXCEPT !.main = "join_vision", !.system_active = FALSE]
    /\ UNCHANGED sys_frame

\* p_vision.join(timeout=2.0): back when the process has ended or after 2 s;
\* NameError if p_vision is not bound, AssertionError if it was not started
JoinVision ==
    /\ obj.main = "join_vision"
    /\ obj' = [obj EXCEPT !.main = IF obj.p_vision \in {"unbound", "created"}
                                   THEN "crashed" ELSE "join_voice"]
    /\ UNCHANGED sys_frame

\* p_voice.join(timeout=2.0)
JoinVoice ==
    /\ obj.main = "join_voice"
    /\ obj' = [obj EXCEPT !.main = IF obj.p_voice \in {"unbound", "created"}
                                   THEN "crashed" ELSE "kill_vision"]
    /\ UNCHANGED sys_frame

\* if p_vision.is_alive(): p_vision.terminate()
KillVision ==
    /\ obj.main = "kill_vision"
    /\ obj' = [(IF obj.p_vision = "alive" THEN VisionEnded(obj, "killed") ELSE obj)
                 EXCEPT !.main = "kill_voice"]
    /\ UNCHANGED sys_frame

\* if p_voice.is_alive(): p_voice.terminate()
KillVoice ==
    /\ obj.main = "kill_voice"
    /\ obj' = [(IF obj.p_voice = "alive" THEN VoiceEnded(obj, "killed") ELSE obj)
                 EXCEPT !.main = "done"]
    /\ UNCHANGED sys_frame

\* a step of main
MainStep ==
    \/ VerifySetup \/ CreateVoice \/ StartVoice \/ CreateVision \/ StartVision
    \/ Monitor \/ Finally \/ JoinVision \/ JoinVoice \/ KillVision \/ KillVoice

\* voice_process_loop up to its loop: the model, the recognizer, the stream;
\* without a microphone RawInputStream raises and the error is printed
VoiceInit ==
    /\ obj.voice = "init"
    /\ obj' = IF ~obj.env.model
              THEN [VoiceEnded(obj, "returned") EXCEPT !.reported = @ \cup {"model"}]
              ELSE IF ~obj.env.mic
              THEN [VoiceEnded(obj, "returned") EXCEPT !.reported = @ \cup {"mic"}]
              ELSE [obj EXCEPT !.voice = "test"]
    /\ UNCHANGED sys_frame

\* the test of the voice loop
VoiceTest ==
    /\ obj.voice = "test"
    /\ obj' = IF WhileActive(obj.system_active)
              THEN [Round(obj, "VoiceLoop") EXCEPT !.voice = "body"]
              ELSE VoiceEnded(obj, "returned")
    /\ UNCHANGED sys_frame

\* a round of the voice loop: q.get(timeout=1.0) and what follows
VoiceBody ==
    /\ obj.voice = "body"
    /\ obj' = [obj EXCEPT !.voice = "test"]
    /\ UNCHANGED sys_frame

\* vision_process_loop up to its loop: the camera is opened without a test,
\* the cursor thread and the context monitor are started
VisionInit ==
    /\ obj.vision = "init"
    /\ obj' = [obj EXCEPT !.vision = "test", !.cursor = "running", !.context = "test"]
    /\ UNCHANGED sys_frame

\* the test of the vision loop
VisionTest ==
    /\ obj.vision = "test"
    /\ obj' = IF WhileActive(obj.system_active)
              THEN [Round(obj, "VisionLoop") EXCEPT !.vision = "body"]
              ELSE [obj EXCEPT !.vision = "cleanup"]
    /\ UNCHANGED sys_frame

\* a round of the vision loop; only a round that has a frame reads the keys
VisionBody ==
    /\ obj.vision = "body"
    /\ \/ obj' = [obj EXCEPT !.vision = "test"]
       \/ /\ obj.env.camera
          /\ obj' = [obj EXCEPT !.vision = "cleanup", !.system_active = FALSE, !.esc = TRUE]
    /\ UNCHANGED sys_frame

\* camera.release() and the return: the process ends
VisionCleanup ==
    /\ obj.vision = "cleanup"
    /\ obj' = VisionEnded(obj, "returned")
    /\ UNCHANGED sys_frame

\* an exception ends the vision process
VisionDies ==
    /\ obj.vision \in {"init", "body"}
    /\ obj' = VisionEnded(obj, "died")
    /\ UNCHANGED sys_frame

\* a round of cursor_thread
CursorRound ==
    /\ obj.cursor = "running"
    /\ WhileTrue(obj.system_active)
    /\ obj' = Round(obj, "CursorLoop")
    /\ UNCHANGED sys_frame

\* the test of context_monitor_thread
ContextTest ==
    /\ obj.context = "test"
    /\ obj' = IF WhileActive(obj.system_active)
              THEN [Round(obj, "ContextMonitor") EXCEPT !.context = "body"]
              ELSE [obj EXCEPT !.context = "returned"]
    /\ UNCHANGED sys_frame

\* a round of context_monitor_thread: set_context and sleep(0.5)
ContextBody ==
    /\ obj.context = "body"
    /\ obj' = [obj EXCEPT !.context = "test"]
    /\ UNCHANGED sys_frame

\* a step of a child process
ChildStep ==
    \/ VoiceInit \/ VoiceTest \/ VoiceBody
    \/ VisionInit \/ VisionTest \/ VisionBody \/ VisionCleanup \/ VisionDies
    \/ CursorRound \/ ContextTest \/ ContextBody

NextSystem == MainStep \/ KeyboardInterrupt \/ ChildStep

SpecSystem == InitSystem /\ [][NextSystem]_vars

\* main gets to run; the children may stay where they are for ever
SpecSystemLive == InitSystem /\ [][NextSystem]_vars /\ WF_vars(MainStep)

----------------------------------------------------------------------------
(* Claims about startup and shutdown                                       *)

\* C24 as stated: no loop begins a round with system_active false -- each
\* loop tests the flag once per round and stops at the first test that finds
\* it false.
C24_AsStated == \A l \in Loops : obj.late[l] = 0

\* what holds: the vision loop, the context monitor and the voice loop do
FlagPolledButByCursor == \A l \in Loops \ {"CursorLoop"} : obj.late[l] = 0

\* main has set system_active to false
MainSetInactive ==
    obj.main \in {"finally", "join_vision", "join_voice", "kill_vision", "kill_voice",
                  "done", "crashed"}

NoChildRunning == obj.p_voice # "alive" /\ obj.p_vision # "alive"

\* C25 as stated: once main has set system_active to false, in the end
\* neither the vision nor the voice process is running, whatever the two do.
C25_AsStated == MainSetInactive ~> NoChildRunning

\* what holds: the same once both processes were started
ShutdownAfterStartup ==
    (MainSetInactive /\ obj.p_vision \notin {"unbound", "created"}) ~> NoChildRunning

\* the model, the camera or the microphone is missing
ResourceAbsent == ~obj.env.model \/ ~obj.env.camera \/ ~obj.env.mic

\* no process was started and no loop runs, and main has reported a failure
\* once it is past verify_setup
FatalAtStartup ==
    /\ obj.p_voice = "unbound" /\ obj.p_vision = "unbound"
    /\ obj.voice \notin {"test", "body"} /\ obj.vision \notin {"test", "body"}
    /\ obj.cursor # "running" /\ obj.context \notin {"test", "body"}
    /\ obj.main # "verify" => obj.reported # {} /\ obj.main = "exited"

\* C26 as stated: with the model, the camera or the microphone missing, the
\* failure is reported before anything is spawned and no loop ever runs.
C26_AsStated == ResourceAbsent => FatalAtStartup

\* what holds: the same for the model
ModelMissingIsFatal == ~obj.env.model => FatalAtStartup

----------------------------------------------------------------------------
(* Claims about the button events of ClickHandler                          *)

\* the calls i < j issued a left button-down each, and no call between them did
ConsecutivePresses(i, j) ==
    /\ i < j /\ Has(trace[i].out, "left_down") /\ Has(trace[j].out, "left_down")
    /\ \A k \in (i + 1)..(j - 1) : ~Has(trace[k].out, "left_down")

\* C31 as stated: two consecutive left button-downs are more than 150 ms
\* apart, also with an emergency_release between them.
C31_AsStated ==
    \A i, j \in 1..Len(trace) :
        ConsecutivePresses(i, j) => trace[j].t - trace[i].t > CLICK_DEBOUNCE

\* what holds: the same when the button was let go by process_pinch
PressesApartAfterRelease ==
    \A i, j \in 1..Len(trace) :
        (/\ ConsecutivePresses(i, j)
         /\ \A k \in (i + 1)..(j - 1) : trace[k].op # "emergency_release")
        => trace[j].t - trace[i].t > CLICK_DEBOUNCE

\* C32 as stated: after a tick on which a hand is detected in a mode other
\* than Cursor, neither button is held down.
C32_AsStated ==
    (last.op = "hand" /\ hs.mode # "cursor")
    => ~state.is_left_down /\ ~state.is_right_down

\* what holds: such a tick makes no call of the ClickHandler and leaves the
\* ClickState, a pressed button included, as it was
NonCursorTickKeepsButtons ==
    [][(last'.op = "hand" /\ hs'.mode # "cursor")
        => state' = state /\ last'.did = <<"update">>]_vars

RECURSIVE OutUpTo(_)
\* the mouse calls issued by the first i calls, in order
OutUpTo(i) == IF i = 0 THEN <<>> ELSE OutUpTo(i - 1) \o trace[i].out

RECURSIVE PinchOutUpTo(_)
\* the mouse calls issued by the process_pinch calls among the first i calls
PinchOutUpTo(i) ==
    IF i = 0 THEN <<>>
    ELSE PinchOutUpTo(i - 1) \o (IF IsPinch(i) THEN trace[i].out ELSE <<>>)

\* the positions before n at which seq has one of the two events
EventsBefore(seq, n, down, up) == {m \in 1..(n - 1) : seq[m] \in {down, up}}

\* the button is physically down after the events of seq
Pressed(seq, down, up) ==
    LET ev == EventsBefore(seq, Len(seq) + 1, down, up)
    IN  ev # {} /\ seq[CHOOSE m \in ev : \A k \in ev : k <= m] = down

\* the events down and up alternate in seq, starting with down
Alternates(seq, down, up) ==
    \A n \in 1..Len(seq) :
        seq[n] \in {down, up} =>
            (seq[n] = down <=> ~Pressed(SubSeq(seq, 1, n - 1), down, up))

\* C33: the left button-down and button-up calls of ClickHandler alternate,
\* starting with a down, and is_left_down is true exactly when the last of
\* them was a down.
C33_LeftButtonInSync ==
    /\ Alternates(OutUpTo(Len(trace)), "left_down", "left_up")
    /\ state.is_left_down <=> Pressed(OutUpTo(Len(trace)), "left_down", "left_up")

\* press, release, press again and an emergency release: down, up, down, up
C33_Witness ==
    /\ Len(trace) = 4
    /\ trace[1].out = <<"left_down">> /\ trace[2].out = <<"left_up">>
    /\ trace[2].op = "process_pinch"
    /\ trace[3].out = <<"left_down">>
    /\ trace[4].op = "emergency_release" /\ trace[4].out = <<"left_up">>
    /\ ~state.is_left_down

\* C34 as stated: the right button-down and button-up calls alternate,
\* starting with a down, also with an emergency release after a right-click
\* upgrade.
C34_AsStated == Alternates(OutUpTo(Len(trace)), "right_down", "right_up")

\* what holds: the right button calls of process_pinch alone alternate
RightAlternatesInProcessPinch ==
    Alternates(PinchOutUpTo(Len(trace)), "right_down", "right_up")

----------------------------------------------------------------------------
(* ClickHandler under calls that are 30 or 600 ms apart                    *)

SlowDeltas == {30, 600}

NextClickSlow ==
    \/ \E d \in Dists, dt \in SlowDeltas : CallProcessPinch(d, dt)
    \/ CallEmergencyRelease

SpecClickSlow == InitClick /\ [][NextClickSlow]_vars

\* the i-th call was the right-click upgrade
IsUpgrade(i) == IsPinch(i) /\ trace[i].out = UpgradeOut

\* the i-th call cleared is_right_down, or would have: a process_pinch with
\* the distance above PINCH_RELEASE, or an emergency_release
ClearsRight(i) ==
    \/ trace[i].op = "emergency_release"
    \/ IsPinch(i) /\ trace[i].dist > PINCH_RELEASE

\* C35: after a right-click upgrade no call issues a button-down, left or
\* right, before a process_pinch with distance > 50 or an emergency_release;
\* distances that go back into the band 30..50 and under 30 again start nothing.
C35_NoClickAfterUpgrade ==
    \A i, j \in 1..Len(trace) :
        (/\ i < j /\ IsUpgrade(i)
         /\ \A k \in (i + 1)..(j - 1) : ~ClearsRight(k))
        => /\ ~Has(trace[j].out, "left_down") /\ ~Has(trace[j].out, "right_down")
           /\ ~ClearsRight(j) => StateAfter(j).is_right_down

\* press, upgrade 600 ms later, then 40 px and 25 px again 600 ms later
\* (past the debounce): nothing is issued
C35_Witness ==
    /\ Len(trace) = 4
    /\ trace[1].out = <<"left_down">> /\ IsUpgrade(2)
    /\ IsPinch(3) /\ trace[3].dist = 40 /\ trace[3].out = <<>>
    /\ IsPinch(4) /\ trace[4].dist = 25 /\ trace[4].out = <<>>
    /\ trace[4].t - trace[4].pre.last_click_time > CLICK_DEBOUNCE
    /\ state.is_right_down /\ ~state.is_left_down

----------------------------------------------------------------------------
(* Claims about the fields of HandState                                    *)

\* no hand: cursor off and mode Idle; cursor on: mode Cursor
Coherent(hand_detected, cursor_active, mode) ==
    /\ ~hand_detected => ~cursor_active /\ mode = "idle"
    /\ cursor_active => mode = "cursor"

\* C36: whenever no call holds the lock of the HandState, hand_detected = false
\* implies cursor_active = false and mode Idle, and cursor_active = true
\* implies mode Cursor; every snapshot returned is like that too.
C36_HandStateCoherent ==
    /\ lock = "free" => Coherent(hs.hand_detected, hs.cursor_active, hs.mode)
    /\ cthr.returned => Coherent(cthr.ret.detected, cthr.ret.cursor_active, cthr.ret.mode)

\* get_snapshot timed out on a state that update had stored in Cursor mode
\* and returned it with no hand, cursor off and mode Idle
C36_Witness ==
    /\ lock = "free" /\ vthr.pc = "idle"
    /\ cthr.returned /\ cthr.pc = "idle"
    /\ ~cthr.ret.detected /\ ~cthr.ret.cursor_active /\ cthr.ret.mode = "idle"
    /\ cthr.ret.pinch_dist = 25
    /\ ~hs.hand_detected /\ hs.mode = "idle"

----------------------------------------------------------------------------
(* Claims about ThreadedCamera                                             *)

\* C37: once the capture thread has stored a frame, the camera never goes
\* back to having none, whatever later captures return; read then returns
\* success with the frame stored last, and the vision loop takes the branch
\* of a missing frame only while no frame was ever stored.
C37_NoLossAfterFirstFrame ==
    /\ [](cam.frame # NoFrame => CameraRead(cam) = [ret |-> TRUE, frame |-> cam.frame])
    /\ [][cam.frame # NoFrame => cam'.frame # NoFrame]_vars
    /\ [](last.op = "no_frame" => cam.frame = NoFrame)

\* the loop has processed a frame with a hand and later, the clock having
\* advanced, reads the frame without a hand that was stored since
C37_Witness ==
    /\ last.op = "no_hand" /\ perf > 0
    /\ hs.pinch_dist = 25
    /\ cam.ret /\ cam.frame = EmptyFrame
    /\ CameraRead(cam).ret

----------------------------------------------------------------------------
(* voice_process_loop: recognition results and the cooldown (times in ms)  *)

\* COOLDOWN = 1.0
COOLDOWN == 1000

MaxResults == 4

\* what the recognizer hands out: nothing, words without the wake word, the
\* wake word alone, and two commands
Texts == {"", "hello", "jarvis", "jarvis open notepad", "jarvis close notepad"}

\* VOICE_CONFIG.wake_word in text
WakeWordIn(text) == text \in {"jarvis", "jarvis open notepad", "jarvis close notepad"}

\* process_voice_input puts a command and returns True
PutsCommand(text) == text \in {"jarvis open notepad", "jarvis close notepad"}

\* the time between two results
ResultDeltas == {400, 700}

\* the loop before its first result: last_exec_time = 0, last_partial = "",
\* and time.time() far above COOLDOWN
InitCooldown ==
    /\ state = ClickState
    /\ wall = EpochOffset + COOLDOWN
    /\ perf = 0
    /\ trace = <<>>
    /\ obj = [kind |-> "voice_process_loop", last_exec_time |-> 0, last_partial |-> "",
              results |-> 0]
    /\ RestInit

\* the command queue after process_voice_input(text, ...) at time now
PutAt(text, now, from) ==
    IF PutsCommand(text) THEN Append(trace, [t |-> now, from |-> from, text |-> text])
    ELSE trace

\* rec.AcceptWaveform(data) is true: the final result of a sentence
FinalResult(text, dt) ==
    /\ obj.results < MaxResults
    /\ wall' = wall + dt
    /\ IF text # ""
       THEN /\ trace' = PutAt(text, wall', "final")
            /\ obj' = [obj EXCEPT !.last_exec_time = wall', !.last_partial = "",
                                  !.results = @ + 1]
       ELSE /\ trace' = trace
            /\ obj' = [obj EXCEPT !.results = @ + 1]
    /\ UNCHANGED <<state, perf, hs, cam, vloop, cloop, call_vars, bus, last>>

\* rec.AcceptWaveform(data) is false: a partial result
PartialResult(text, dt) ==
    /\ obj.results < MaxResults
    /\ wall' = wall + dt
    /\ IF text # "" /\ text # obj.last_partial
       THEN IF WakeWordIn(text) /\ wall' - obj.last_exec_time > COOLDOWN
            THEN /\ trace' = PutAt(text, wall', "partial")
                 /\ obj' = IF PutsCommand(text)
                           THEN [obj EXCEPT !.last_exec_time = wall', !.last_partial = "",
                                            !.results = @ + 1]
                           ELSE [obj EXCEPT !.last_partial = text, !.results = @ + 1]
            ELSE /\ trace' = trace
                 /\ obj' = [obj EXCEPT !.last_partial = text, !.results = @ + 1]
       ELSE /\ trace' = trace
            /\ obj' = [obj EXCEPT !.results = @ + 1]
    /\ UNCHANGED <<state, perf, hs, cam, vloop, cloop, call_vars, bus, last>>

NextCooldown ==
    \/ \E text \in Texts, dt \in ResultDeltas : FinalResult(text, dt)
    \/ \E text \in Texts, dt \in ResultDeltas : PartialResult(text, dt)

SpecCooldown == InitCooldown /\ [][NextCooldown]_vars

\* C38 as stated: any two commands put on the queue by the voice loop are at
\* least COOLDOWN apart, from partial and from final results alike.
C38_AsStated ==
    \A i, j \in 1..Len(trace) : i < j => trace[j].t - trace[i].t >= COOLDOWN

\* what holds: a command put from a partial result comes more than COOLDOWN
\* after every command before it
PartialKeepsCooldown ==
    \A i, j \in 1..Len(trace) :
        (i < j /\ trace[j].from = "partial") => trace[j].t - trace[i].t > COOLDOWN

-----------------------------------------------------------------------------
\* The coordinate mapping of cursor_thread, over smoothed positions in the
\* middle of the frame, inside the camera margin, on the frame's edges and
\* outside the frame (a landmark the detector extrapolates past the image).

SmoothedXs == {-50, 0, 35, 69, 70, 71, 320, 569, 570, 571, 640, 700}
SmoothedYs == {-50, 0, 35, 69, 70, 240, 409, 410, 411, 480, 520}

InitMapping ==
    /\ state = ClickState
    /\ wall = EpochOffset
    /\ perf = 0
    /\ trace = << >>
    /\ \E sx \in SmoothedXs, sy \in SmoothedYs :
           obj = [kind |-> "cursor_thread", sx |-> sx, sy |-> sy]
    /\ RestInit

\* lines 325-334: normalise, clamp, convert, MouseController.move
MapsToScreen ==
    /\ obj.kind = "cursor_thread"
    /\ trace = << >>
    /\ trace' = <<[op |-> "move", sx |-> obj.sx, sy |-> obj.sy,
                   to |-> ScreenPos([x |-> obj.sx, y |-> obj.sy])]>>
    /\ UNCHANGED <<state, wall, perf, hs, vision_vars, cloop, call_vars,
                   obj, bus, last>>

NextMapping == MapsToScreen

SpecMapping == InitMapping /\ [][NextMapping]_vars

OnScreen(p) ==
    /\ 0 <= p.x /\ p.x <= Screen.w - 1
    /\ 0 <= p.y /\ p.y <= Screen.h - 1

\* C39: every cursor move cursor_thread issues has screen coordinates with
\* 0 <= x <= screen_w - 1 and 0 <= y <= screen_h - 1, whatever the smoothed
\* camera position: inside the margin, on the edge or outside the frame.
C39_MoveOnScreen ==
    \A i \in 1..Len(trace) : trace[i].op = "move" => OnScreen(trace[i].to)

\* a move from a position left of and above the margin, clamped to (0, 0),
\* and one from beyond the far margins, clamped to the last pixel
C39_Witness ==
    /\ Len(trace) = 1
    /\ \/ trace[1].sx < 70 /\ trace[1].sy < 70 /\ trace[1].to = [x |-> 0, y |-> 0]
       \/ /\ trace[1].sx > 570 /\ trace[1].sy > 410
          /\ trace[1].to = [x |-> Screen.w - 1, y |-> Screen.h - 1]

====
